---- MODULE Spec2Model ----
(***************************************************************************)
(* Command Execution Gateway of AutoPentest (AIDA): the pending-command    *)
(* approval workflow (backend/api/pending_commands.py), the command        *)
(* execution endpoints (backend/api/commands.py) and the command settings. *)
(*                                                                         *)
(* Handlers are coroutines of one event loop.  A handler is modelled as a  *)
(* task whose steps are the code between two awaits; a step that touches   *)
(* the database is taken at the moment the database processes it.  The     *)
(* synchronous sweep (check_and_timeout_expired_commands) has no await and *)
(* is one step.                                                            *)
(***************************************************************************)
EXTENDS Integers, Sequences, FiniteSets, TLC

VARIABLES
    now,        \* wall clock, seconds (datetime.utcnow / func.now)
    settings,   \* platform_settings: command_execution_mode, command_filter_keywords, command_timeout_seconds
    rows,       \* table pending_commands; a row's id is its index
    tasks,      \* in-flight request handlers, one per slot
    response,   \* what a handler returned in the step just taken (NoResponse: nothing)
    events,     \* per pending row: the manager.broadcast calls about it, in call order
    runs,       \* per pending row: how often ContainerService ran its command
    settings_events,  \* command_settings_updated broadcasts made (saturating count)
    decision,   \* the policy decisions made, latest only: <<>> or <<decision>>
    delivered,  \* per WebSocket connection: the events sent to it, in send order
    sending,    \* per WebSocket connection: the handlers with a send to it under way, oldest first
    containers_cache,   \* AidaMCPService.containers_cache
    cache_timestamp,    \* AidaMCPService.cache_timestamp
    calls,      \* the AidaMCPService coroutines in flight, one per slot
    ret,        \* what an AidaMCPService coroutine returned in the step just taken
    runtime_calls,      \* how often the container runtime was invoked, per docker subcommand
    procs,      \* per coroutine slot: the process its _run_command spawned
    command_history,    \* AidaMCPService.command_history
    invocations,        \* how often execute_container_command was called
    completions,        \* the calls whose _run_command returned, in that order
    credentials,        \* table credentials
    command_log,        \* the commands handed to execute_and_log_command, in call order
    platform_output_max_length,     \* platform_settings: <<the value stored under output_max_length>>, <<>> if none
    output_max_length,              \* AidaMCPService.output_max_length
    output_max_length_cache_time,   \* AidaMCPService.output_max_length_cache_time
    manager,            \* the ConnectionManager: active_connections, assessment_connections
    broadcasts,         \* the manager.broadcast coroutines in flight, one per slot
    broadcast_ret       \* what a manager.broadcast did when it ended in the step just taken

\* the state of the MCP service (AidaMCPService)
\* the command history and the record of the calls that feed it
history_vars == <<command_history, invocations, completions>>

mcp_vars == <<containers_cache, cache_timestamp, calls, ret, runtime_calls, procs,
             history_vars>>

\* the credentials and the commands run with them
cred_vars == <<credentials, command_log>>

provider_vars == <<platform_output_max_length, output_max_length,
                   output_max_length_cache_time>>

manager_vars == <<manager, broadcasts, broadcast_ret>>

added_vars == <<provider_vars, manager_vars>>

\* the state of the backend: settings, pending-command store, handlers, connections
backend_vars == <<settings, rows, tasks, response, events, runs, settings_events, decision,
                  delivered, sending, cred_vars>>

\* the state beyond the pending-command store and its handlers
beyond_store == <<delivered, sending, mcp_vars, cred_vars>>

vars == <<now, settings, rows, tasks, response, events, runs, settings_events, decision,
          beyond_store, added_vars>>

-----------------------------------------------------------------------------
(* Bounds of the model *)

MaxTime == 1
MaxSweepTime == 2
MaxRows == 1
MaxSweepRows == 2
MaxTasks == 2
MaxTimeout == 1
MaxSettingsEvents == 1

Null == "null"      \* Python None / SQL NULL, where the value is a string
NoInt == -1         \* Python None / SQL NULL, where the value is an integer
Global == 0         \* manager.broadcast(event) without assessment_id

AssessmentIds == {1, 2}
TaskIds == 1..MaxTasks
Timeouts == 0..MaxTimeout
ExecutionModes == {"open", "filter", "closed"}

-----------------------------------------------------------------------------
(* Strings are sequences of characters *)

\* (a text a command writes to stderr is a sequence of phrases; a phrase is
\* lower-cased as a whole)
LowerChar(c) ==
    CASE c = "R" -> "r"
      [] c = "M" -> "m"
      [] c = "D" -> "d"
      [] c = "Not Found" -> "not found"
      [] c = "Usage:" -> "usage:"
      [] OTHER -> c

\* str.lower()
Lower(s) == [i \in DOMAIN s |-> LowerChar(s[i])]

RECURSIVE LStrip(_)
LStrip(s) == IF s # <<>> /\ Head(s) = " " THEN LStrip(Tail(s)) ELSE s

RECURSIVE RStrip(_)
RStrip(s) ==
    IF s # <<>> /\ s[Len(s)] = " " THEN RStrip(SubSeq(s, 1, Len(s) - 1)) ELSE s

\* str.strip()
Strip(s) == RStrip(LStrip(s))

\* Python's  k in s  on strings
Contains(s, k) ==
    \E i \in 0..(Len(s) - Len(k)) : SubSeq(s, i + 1, i + Len(k)) = k

Range(f) == {f[i] : i \in DOMAIN f}

\* list.remove(x): drops the first occurrence
RECURSIVE RemoveFirst(_, _)
RemoveFirst(s, x) ==
    IF s = <<>> THEN <<>>
    ELSE IF Head(s) = x THEN Tail(s)
    ELSE <<Head(s)>> \o RemoveFirst(Tail(s), x)

Str_rm == <<"r", "m">>
Str_RM == <<"R", "M">>
Str_dd == <<"d", "d">>
Str_ls == <<"l", "s">>
Str_sp_Rm == <<" ", "R", "m">>
Str_RM_x == <<"R", "M", " ", "x">>
Str_rm_x == <<"r", "m", " ", "x">>

DEFAULT_EXECUTION_MODE == "open"
DEFAULT_FILTER_KEYWORDS == <<Str_rm, Str_dd>>

-----------------------------------------------------------------------------
(* Command settings *)

\* get_command_settings: the stored values (the defaults when nothing is stored)
get_command_settings(s) == s

\* update_settings: PUT /command-settings.  Returns the new settings, or
\* "bad_request" when execution_mode is none of the three modes.
\* An absent (None) field of CommandSettingsUpdate is Null, NoKeywords, NoInt.
NoKeywords == <<<<"None">>>>

\* if update.execution_mode: None and the empty string are skipped
ModeGiven(update) == update.execution_mode \notin {Null, ""}

UpdateSettingsBadMode(update) ==
    ModeGiven(update) /\ update.execution_mode \notin ExecutionModes

UpdatedSettings(s, update) ==
    [execution_mode |->
        IF ModeGiven(update) THEN update.execution_mode
        ELSE s.execution_mode,
     filter_keywords |->
        IF update.filter_keywords # NoKeywords THEN update.filter_keywords
        ELSE s.filter_keywords,
     timeout_seconds |->
        IF update.timeout_seconds # NoInt THEN update.timeout_seconds
        ELSE s.timeout_seconds]

\* add_keyword: POST /command-settings/keywords
KeywordsAfterAdd(keywords, raw) ==
    LET keyword == Lower(Strip(raw))
    IN  IF keyword # <<>> /\ keyword \notin Range(keywords)
        THEN Append(keywords, keyword)
        ELSE keywords

\* remove_keyword: DELETE /command-settings/keywords/{keyword}
KeywordsAfterRemove(keywords, raw) ==
    LET keyword == Lower(Strip(raw))
    IN  IF keyword \in Range(keywords)
        THEN RemoveFirst(keywords, keyword)
        ELSE keywords

-----------------------------------------------------------------------------
(* Policy Engine *)

\* classify(command, config): in filter mode the command is lower-cased and
\* every configured keyword is tested as a substring of it.
MatchedKeywords(command, keywords) ==
    {k \in Range(keywords) : Contains(Lower(command), k)}

Classify(command, config) ==
    CASE config.execution_mode = "closed" ->
            [mode |-> "require_approval", matched_keywords |-> {}]
      [] config.execution_mode = "open" ->
            [mode |-> "execute_now", matched_keywords |-> {}]
      [] OTHER ->
            LET m == MatchedKeywords(command, config.filter_keywords)
            IN  IF m # {}
                THEN [mode |-> "require_approval", matched_keywords |-> m]
                ELSE [mode |-> "execute_now", matched_keywords |-> {}]

-----------------------------------------------------------------------------
(* Pending Command Store *)

Commands == {Str_rm_x}
Approver == "admin"             \* PendingCommandApprove.approved_by default
RejectionReasons == {Null, "denied"}
UnknownAssessment == 99

\* PendingCommand(...) as create_pending_command builds it
NewPendingCommand(assessment_id, command, matched_keywords, timeout_sec, created) ==
    [assessment_id |-> assessment_id,
     command |-> command,
     matched_keywords |-> matched_keywords,
     status |-> "pending",
     resolved_by |-> Null,
     rejection_reason |-> Null,
     resolved_at |-> NoInt,
     execution_result |-> Null,
     created_at |-> created,
     timeout_seconds |-> timeout_sec]

\* f"Auto-cancelled: exceeded {cmd_timeout}s timeout"
AutoCancelled(cmd_timeout) ==
    "Auto-cancelled: exceeded " \o ToString(cmd_timeout) \o "s timeout"

\* (mutation of CmdTimeout: the sweep reads the global setting only)
CmdTimeoutGlobal(cmd, timeout_seconds) == timeout_seconds

\* cmd.timeout_seconds if cmd.timeout_seconds is not None else timeout_seconds
CmdTimeout(cmd, timeout_seconds) ==
    IF cmd.timeout_seconds # NoInt THEN cmd.timeout_seconds ELSE timeout_seconds

\* (mutation of Expired: the comparison includes the limit itself)
ExpiredInclusive(cmd, at, timeout_seconds) ==
    /\ cmd.created_at # NoInt
    /\ (at - cmd.created_at) >= CmdTimeout(cmd, timeout_seconds)

\* elapsed_seconds > cmd_timeout
Expired(cmd, at, timeout_seconds) ==
    /\ cmd.created_at # NoInt
    /\ (at - cmd.created_at) > CmdTimeout(cmd, timeout_seconds)

\* check_and_timeout_expired_commands: the rows after the sweep
SweptRow(cmd, at, timeout_seconds) ==
    IF cmd.status = "pending" /\ Expired(cmd, at, timeout_seconds)
    THEN [cmd EXCEPT !.status = "timeout",
                     !.resolved_at = at,
                     !.rejection_reason = AutoCancelled(CmdTimeout(cmd, timeout_seconds))]
    ELSE cmd

Swept(rs, at, timeout_seconds) ==
    [i \in DOMAIN rs |-> SweptRow(rs[i], at, timeout_seconds)]

\* timed_out_ids, in query order
RECURSIVE TimedOutFrom(_, _, _, _)
TimedOutFrom(rs, i, at, timeout_seconds) ==
    IF i > Len(rs) THEN <<>>
    ELSE (IF rs[i].status = "pending" /\ Expired(rs[i], at, timeout_seconds)
          THEN <<i>> ELSE <<>>)
         \o TimedOutFrom(rs, i + 1, at, timeout_seconds)

\* (mutation of TimedOutIds: every row is reported, timed out or not)
TimedOutIdsEveryRow(rs, at, timeout_seconds) == [i \in DOMAIN rs |-> i]

TimedOutIds(rs, at, timeout_seconds) == TimedOutFrom(rs, 1, at, timeout_seconds)

\* (mutation of IsResolvable: a timed-out row can still be resolved)
IsResolvableOrTimedOut(cmd) == cmd.status \in {"pending", "timeout"}

\* the precondition of approve_command and reject_command
IsResolvable(cmd) == cmd.status = "pending"

\* (mutation of ResolutionAudiences: the global broadcast only)
ResolutionAudiencesGlobalOnly(cmd) == <<Global>>

\* the two broadcasts after an approve or a reject: the assessment's
\* connections first, then all connections
ResolutionAudiences(cmd) == <<cmd.assessment_id, Global>>

Event(type, command_id, scope) ==
    [type |-> type, command_id |-> command_id, scope |-> scope]

ResolutionEvents(type, command_id, cmd) ==
    [k \in DOMAIN ResolutionAudiences(cmd) |->
        Event(type, command_id, ResolutionAudiences(cmd)[k])]

\* check_and_timeout_expired_commands_async: one global event per id
TimeoutEvents(ids) ==
    [k \in DOMAIN ids |-> Event("command_timeout", ids[k], Global)]

-----------------------------------------------------------------------------
(* AidaMCPService: its coroutines *)

MaxCalls == 2
CallIds == 1..MaxCalls

\* op: the method; pc: where it is; current_time: time.time() as read at its
\* start; force_refresh: discover_containers' argument; timeout: _run_command's;
\* status: validate_container_status' local, and starts: the docker start
\* commands it issued; invocation: the how-manieth execute_container_command
IdleCall ==
    [op |-> "none", pc |-> "idle", current_time |-> 0, force_refresh |-> FALSE,
     timeout |-> 0, status |-> <<>>, starts |-> 0, invocation |-> 0,
     container_name |-> Null, current_container |-> Null, command |-> Null,
     fetched |-> NoInt]

\* a return value: op, the method; value, what it returned; source and result,
\* where discover_containers took the list from
NoReturn == [op |-> "none"]

DockerCommands == {"ps", "inspect", "start", "exec"}
NoRuntimeCalls == [c \in DockerCommands |-> 0]

\* The process of a slot.  state: "none" nothing spawned, "running", "exited"
\* (terminated, not yet waited for: a zombie), "reaped" (waited for: the event
\* loop knows its return code); killed: SIGKILL was sent to it
NoProcess == [state |-> "none", killed |-> FALSE]

\* a call is taken by the first free slot
FreeCall(k) ==
    /\ calls[k].pc = "idle"
    /\ \A j \in CallIds : j < k => calls[j].pc # "idle"

-----------------------------------------------------------------------------
(* AidaMCPService._run_command: its results *)

\* _classify_error(returncode, stderr)
_classify_error(returncode, stderr) ==
    IF returncode = 127 THEN "command_not_found"
    ELSE IF returncode = 126 THEN "permission_denied"
    ELSE IF returncode = 2 THEN "invalid_arguments"
    ELSE IF Contains(Lower(stderr), <<"not found">>) THEN "command_not_found"
    ELSE IF Contains(Lower(stderr), <<"permission denied">>) THEN "permission_denied"
    ELSE IF Contains(Lower(stderr), <<"invalid">>) \/ Contains(Lower(stderr), <<"usage:">>)
        THEN "invalid_command"
    ELSE IF returncode # 0 THEN "command_failed"
    ELSE "success"

\* the dict returned when the process completed within the timeout
CompletedResult(returncode, stdout, stderr) ==
    [success |-> returncode = 0, returncode |-> returncode, stdout |-> stdout,
     stderr |-> stderr, error_type |-> _classify_error(returncode, stderr)]

\* f"Command timed out after {timeout}s" and the other messages the method
\* puts in stderr itself
TimedOutMessage == <<"Command timed out">>
NotFoundMessage == <<"Command not found">>
FailedMessage == <<"Execution failed">>

\* except asyncio.TimeoutError
TimeoutResult ==
    [success |-> FALSE, returncode |-> -1, stdout |-> <<>>,
     stderr |-> TimedOutMessage, error_type |-> "timeout"]

\* except FileNotFoundError
NotFoundResult ==
    [success |-> FALSE, returncode |-> -1, stdout |-> <<>>,
     stderr |-> NotFoundMessage, error_type |-> "command_not_found"]

\* except Exception
FailedResult ==
    [success |-> FALSE, returncode |-> -1, stdout |-> <<>>,
     stderr |-> FailedMessage, error_type |-> "execution_failed"]

\* _run_command up to its first await that waits for the process:
\* asyncio.create_subprocess_exec spawns it ("spawned"), or raises
\* FileNotFoundError ("missing") or another exception ("error")
RunBegin(k, command, timeout, outcome) ==
    /\ FreeCall(k)
    /\ runtime_calls' = [runtime_calls EXCEPT ![command] = @ + 1]
    /\ IF outcome = "spawned"
       THEN /\ calls' = [calls EXCEPT ![k] =
                    [IdleCall EXCEPT !.op = "run", !.pc = "waiting",
                                     !.current_time = now, !.timeout = timeout,
                                     !.command = command]]
            /\ procs' = [procs EXCEPT ![k] = [NoProcess EXCEPT !.state = "running"]]
            /\ ret' = NoReturn
       ELSE /\ procs' = [procs EXCEPT ![k] = NoProcess]
            /\ ret' = [op |-> "run", call |-> k, timed_out |-> FALSE,
                       value |-> IF outcome = "missing" THEN NotFoundResult
                                 ELSE FailedResult]
            /\ UNCHANGED calls
    /\ UNCHANGED <<now, containers_cache, cache_timestamp, history_vars>>
    /\ UNCHANGED backend_vars
    /\ UNCHANGED added_vars

\* the process terminates: by itself, or, when SIGKILL was sent to it, by the
\* signal
ProcessExits(k) ==
    /\ procs[k].state = "running"
    /\ procs' = [procs EXCEPT ![k].state = "exited"]
    /\ ret' = NoReturn
    /\ UNCHANGED <<now, containers_cache, cache_timestamp, calls, runtime_calls,
                   history_vars>>
    /\ UNCHANGED backend_vars
    /\ UNCHANGED added_vars

\* the event loop's child watcher waits for the terminated process and sets
\* process.returncode
ChildReaped(k) ==
    /\ procs[k].state = "exited"
    /\ procs' = [procs EXCEPT ![k].state = "reaped"]
    /\ ret' = NoReturn
    /\ UNCHANGED <<now, containers_cache, cache_timestamp, calls, runtime_calls,
                   history_vars>>
    /\ UNCHANGED backend_vars
    /\ UNCHANGED added_vars

\* asyncio.wait_for(process.communicate(), timeout) returns: the dict made of
\* process.returncode and the stderr the process wrote
RunComplete(k, returncode, stderr) ==
    /\ calls[k].op = "run"
    /\ calls[k].pc = "waiting"
    /\ procs[k].state = "reaped"
    /\ calls' = [calls EXCEPT ![k] = IdleCall]
    /\ ret' = [op |-> "run", call |-> k, timed_out |-> FALSE,
               returncode |-> returncode, stderr |-> stderr,
               value |-> CompletedResult(returncode, <<>>, stderr)]
    /\ UNCHANGED <<now, containers_cache, cache_timestamp, runtime_calls, procs,
                   history_vars>>
    /\ UNCHANGED backend_vars
    /\ UNCHANGED added_vars

\* the handler returns at once, without process.kill() and the second
\* process.communicate()
RunTimeoutNoReap(k) ==
    /\ calls[k].op = "run"
    /\ calls[k].pc = "waiting"
    /\ now - calls[k].current_time >= calls[k].timeout
    /\ calls' = [calls EXCEPT ![k] = IdleCall]
    /\ ret' = [op |-> "run", call |-> k, timed_out |-> TRUE, value |-> TimeoutResult]
    /\ UNCHANGED procs
    /\ UNCHANGED <<now, containers_cache, cache_timestamp, runtime_calls,
                   history_vars>>
    /\ UNCHANGED backend_vars
    /\ UNCHANGED added_vars

\* asyncio.wait_for raises TimeoutError: process.kill(), then await
\* process.communicate().  On a process already waited for, kill() raises
\* ProcessLookupError (or does nothing) and the handler returns.
RunTimeout(k) ==
    /\ calls[k].op = "run"
    /\ calls[k].pc = "waiting"
    /\ now - calls[k].current_time >= calls[k].timeout
    /\ IF procs[k].state = "reaped"
       THEN /\ calls' = [calls EXCEPT ![k] = IdleCall]
            /\ ret' = [op |-> "run", call |-> k, timed_out |-> TRUE,
                       value |-> TimeoutResult]
            /\ UNCHANGED procs
       ELSE /\ calls' = [calls EXCEPT ![k].pc = "killing"]
            /\ procs' = [procs EXCEPT ![k].killed = (procs[k].state = "running")]
            /\ ret' = NoReturn
    /\ UNCHANGED <<now, containers_cache, cache_timestamp, runtime_calls,
                   history_vars>>
    /\ UNCHANGED backend_vars
    /\ UNCHANGED added_vars

\* the second process.communicate() returns: the timeout dict
RunKilled(k) ==
    /\ calls[k].op = "run"
    /\ calls[k].pc = "killing"
    /\ procs[k].state = "reaped"
    /\ calls' = [calls EXCEPT ![k] = IdleCall]
    /\ ret' = [op |-> "run", call |-> k, timed_out |-> TRUE, value |-> TimeoutResult]
    /\ UNCHANGED <<now, containers_cache, cache_timestamp, runtime_calls, procs,
                   history_vars>>
    /\ UNCHANGED backend_vars
    /\ UNCHANGED added_vars

-----------------------------------------------------------------------------
(* AidaMCPService.validate_container_status *)

\* the dicts it returns
Validated(status) == [success |-> TRUE, status |-> status]
NotValidated(error) == [success |-> FALSE, error |-> error]

\* up to the await of docker inspect; current_container is
\* self.current_container, Null for None
ValidateBegin(k, current_container) ==
    /\ FreeCall(k)
    /\ IF current_container = Null
       THEN /\ ret' = [op |-> "validate", inspected |-> FALSE, status |-> <<>>,
                       starts |-> 0, value |-> NotValidated("No container selected")]
            /\ UNCHANGED <<calls, runtime_calls>>
       ELSE /\ calls' = [calls EXCEPT ![k] =
                    [IdleCall EXCEPT !.op = "validate", !.pc = "inspecting"]]
            /\ runtime_calls' = [runtime_calls EXCEPT !["inspect"] = @ + 1]
            /\ ret' = NoReturn
    /\ UNCHANGED <<now, containers_cache, cache_timestamp, procs, history_vars>>
    /\ UNCHANGED backend_vars
    /\ UNCHANGED added_vars

\* docker start is issued for every state but running
ValidateInspectedStartsAny(k, result) ==
    /\ calls[k].op = "validate"
    /\ calls[k].pc = "inspecting"
    /\ IF ~result.success
       THEN /\ ret' = [op |-> "validate", inspected |-> FALSE, status |-> <<>>,
                       starts |-> 0, value |-> NotValidated("Container not found")]
            /\ calls' = [calls EXCEPT ![k] = IdleCall]
            /\ UNCHANGED runtime_calls
       ELSE IF result.stdout = <<"running">>
       THEN /\ ret' = [op |-> "validate", inspected |-> TRUE, status |-> result.stdout,
                       starts |-> 0, value |-> Validated("running")]
            /\ calls' = [calls EXCEPT ![k] = IdleCall]
            /\ UNCHANGED runtime_calls
       ELSE /\ calls' = [calls EXCEPT ![k].pc = "starting",
                                      ![k].status = result.stdout,
                                      ![k].starts = @ + 1]
            /\ runtime_calls' = [runtime_calls EXCEPT !["start"] = @ + 1]
            /\ ret' = NoReturn
    /\ UNCHANGED <<now, containers_cache, cache_timestamp, procs, history_vars>>
    /\ UNCHANGED backend_vars
    /\ UNCHANGED added_vars

\* docker inspect returned result: the status decides
ValidateInspected(k, result) ==
    /\ calls[k].op = "validate"
    /\ calls[k].pc = "inspecting"
    /\ IF ~result.success
       THEN /\ ret' = [op |-> "validate", inspected |-> FALSE, status |-> <<>>,
                       starts |-> 0, value |-> NotValidated("Container not found")]
            /\ calls' = [calls EXCEPT ![k] = IdleCall]
            /\ UNCHANGED runtime_calls
       ELSE IF result.stdout = <<"running">>
       THEN /\ ret' = [op |-> "validate", inspected |-> TRUE, status |-> result.stdout,
                       starts |-> 0, value |-> Validated("running")]
            /\ calls' = [calls EXCEPT ![k] = IdleCall]
            /\ UNCHANGED runtime_calls
       ELSE IF result.stdout \in {<<"created">>, <<"exited">>}
       THEN /\ calls' = [calls EXCEPT ![k].pc = "starting",
                                      ![k].status = result.stdout,
                                      ![k].starts = @ + 1]
            /\ runtime_calls' = [runtime_calls EXCEPT !["start"] = @ + 1]
            /\ ret' = NoReturn
       ELSE /\ ret' = [op |-> "validate", inspected |-> TRUE, status |-> result.stdout,
                       starts |-> 0,
                       value |-> NotValidated("Container in invalid state")]
            /\ calls' = [calls EXCEPT ![k] = IdleCall]
            /\ UNCHANGED runtime_calls
    /\ UNCHANGED <<now, containers_cache, cache_timestamp, procs, history_vars>>
    /\ UNCHANGED backend_vars
    /\ UNCHANGED added_vars

\* docker start returned start_result
ValidateStarted(k, start_result) ==
    /\ calls[k].op = "validate"
    /\ calls[k].pc = "starting"
    /\ ret' = [op |-> "validate", inspected |-> TRUE, status |-> calls[k].status,
               starts |-> calls[k].starts, start_result |-> start_result,
               value |-> IF start_result.success THEN Validated("started")
                         ELSE NotValidated("Failed to start container")]
    /\ calls' = [calls EXCEPT ![k] = IdleCall]
    /\ UNCHANGED <<now, containers_cache, cache_timestamp, runtime_calls, procs,
                   history_vars>>
    /\ UNCHANGED backend_vars
    /\ UNCHANGED added_vars

-----------------------------------------------------------------------------
(* AidaMCPService.execute_container_command *)

max_history == 50

\* what is kept of a full history: self.command_history[-25:]
KeptEntries == 25

\* the oldest entries are kept instead: self.command_history[:25]
TrimmedOldestKept(history) ==
    IF Len(history) > KeptEntries THEN SubSeq(history, 1, KeptEntries) ELSE history

\* self.command_history[-25:]
Trimmed(history) ==
    IF Len(history) > KeptEntries
    THEN SubSeq(history, Len(history) - KeptEntries + 1, Len(history))
    ELSE history

\* the entry appended: timestamp is start_time
HistoryEntry(call, result) ==
    [timestamp |-> call.current_time, invocation |-> call.invocation,
     success |-> result.success]

\* execute_container_command(container_name, command) up to
\* await self.validate_container_status(), which validates
\* self.current_container (Null for None)
ExecuteBegin(k, container_name, current_container) ==
    /\ FreeCall(k)
    /\ invocations' = invocations + 1
    /\ calls' = [calls EXCEPT ![k] =
            [IdleCall EXCEPT !.op = "execute", !.pc = "validating",
                             !.invocation = invocations + 1,
                             !.container_name = container_name,
                             !.current_container = current_container]]
    /\ ret' = NoReturn
    /\ UNCHANGED <<now, containers_cache, cache_timestamp, runtime_calls, procs,
                   command_history, completions>>
    /\ UNCHANGED backend_vars
    /\ UNCHANGED added_vars

\* what validate_container_status can return for current_container
ValidationsOf(current_container) ==
    IF current_container = Null THEN {NotValidated("No container selected")}
    ELSE {Validated("running"), Validated("started"),
          NotValidated("Container not found"),
          NotValidated("Failed to start container"),
          NotValidated("Container in invalid state")}

\* validate_container_status returned validation: the early return, or
\* start_time = time.time() and docker exec is run in container_name
ExecuteValidated(k, validation) ==
    /\ calls[k].op = "execute"
    /\ calls[k].pc = "validating"
    /\ validation \in ValidationsOf(calls[k].current_container)
    /\ IF ~validation.success
       THEN /\ calls' = [calls EXCEPT ![k] = IdleCall]
            /\ ret' = [op |-> "execute", invocation |-> calls[k].invocation,
                       validated |-> FALSE, container |-> calls[k].container_name,
                       value |-> [success |-> FALSE, execution_time |-> 0]]
            /\ UNCHANGED runtime_calls
       ELSE /\ calls' = [calls EXCEPT ![k].pc = "executing",
                                      ![k].current_time = now]
            /\ runtime_calls' = [runtime_calls EXCEPT !["exec"] = @ + 1]
            /\ ret' = NoReturn
    /\ UNCHANGED <<now, containers_cache, cache_timestamp, procs, history_vars>>
    /\ UNCHANGED backend_vars
    /\ UNCHANGED added_vars

\* _run_command returned result: a full history is trimmed, the entry is
\* appended, and the dict is returned
ExecuteEnd(k, result) ==
    /\ calls[k].op = "execute"
    /\ calls[k].pc = "executing"
    /\ command_history' =
            Append(IF Len(command_history) >= max_history
                   THEN Trimmed(command_history) ELSE command_history,
                   HistoryEntry(calls[k], result))
    /\ completions' = Append(completions, calls[k].invocation)
    /\ calls' = [calls EXCEPT ![k] = IdleCall]
    /\ ret' = [op |-> "execute", invocation |-> calls[k].invocation,
               validated |-> TRUE, container |-> calls[k].container_name,
               value |-> [success |-> result.success,
                          execution_time |-> now - calls[k].current_time]]
    /\ UNCHANGED <<now, containers_cache, cache_timestamp, runtime_calls, procs,
                   invocations>>
    /\ UNCHANGED backend_vars
    /\ UNCHANGED added_vars

-----------------------------------------------------------------------------
(* AidaMCPService.get_output_max_length *)

\* self.output_max_length: int = 5000
DEFAULT_OUTPUT_MAX_LENGTH == 5000

output_max_length_cache_ttl == 60

\* get_platform_setting: GET /system/settings/output_max_length answers the
\* stored value, or "5000" when nothing is stored
StoredOutputMaxLength ==
    IF platform_output_max_length = <<>> THEN DEFAULT_OUTPUT_MAX_LENGTH
    ELSE platform_output_max_length[1]

\* up to the await of the GET: the cached value while it is fresh
GetOutputMaxLengthBegin(k) ==
    /\ FreeCall(k)
    /\ IF (now - output_max_length_cache_time) < output_max_length_cache_ttl
       THEN /\ ret' = [op |-> "get_output_max_length", value |-> output_max_length,
                       source |-> "cache"]
            /\ UNCHANGED calls
       ELSE /\ calls' = [calls EXCEPT ![k] =
                    [IdleCall EXCEPT !.op = "get_output_max_length",
                                     !.pc = "requested", !.current_time = now]]
            /\ ret' = NoReturn
    /\ UNCHANGED <<now, containers_cache, cache_timestamp, runtime_calls, procs,
                   history_vars>>
    /\ UNCHANGED backend_vars
    /\ UNCHANGED <<provider_vars, manager_vars>>

\* the backend handles the GET: get_platform_setting reads the stored value
GetOutputMaxLengthServed(k) ==
    /\ calls[k].op = "get_output_max_length"
    /\ calls[k].pc = "requested"
    /\ calls' = [calls EXCEPT ![k].pc = "served", ![k].fetched = StoredOutputMaxLength]
    /\ ret' = NoReturn
    /\ UNCHANGED <<now, containers_cache, cache_timestamp, runtime_calls, procs,
                   history_vars>>
    /\ UNCHANGED backend_vars
    /\ UNCHANGED <<provider_vars, manager_vars>>

\* the GET ended: with status 200 (ok) the value and the cache time are
\* replaced; with another status or an exception they are kept.  The value
\* the service holds then is returned.
GetOutputMaxLengthEnd(k, ok) ==
    /\ calls[k].op = "get_output_max_length"
    /\ calls[k].pc \in {"requested", "served"}
    /\ ok => calls[k].pc = "served"
    /\ IF ok
       THEN /\ output_max_length' = calls[k].fetched
            /\ output_max_length_cache_time' = calls[k].current_time
       ELSE UNCHANGED <<output_max_length, output_max_length_cache_time>>
    /\ calls' = [calls EXCEPT ![k] = IdleCall]
    /\ ret' = [op |-> "get_output_max_length", value |-> output_max_length',
               source |-> IF ok THEN "backend" ELSE "kept"]
    /\ UNCHANGED <<now, containers_cache, cache_timestamp, runtime_calls, procs,
                   history_vars>>
    /\ UNCHANGED backend_vars
    /\ UNCHANGED <<platform_output_max_length, manager_vars>>

-----------------------------------------------------------------------------
(* AidaMCPService.discover_containers *)

cache_ttl == 30

\* A line of the output of  docker ps -a --format json.  kind: "json" a JSON
\* object, "blank" an empty line, "bad_json" not JSON, "not_object" JSON but no
\* object; Names, Image, ID: the object's fields, Null for a JSON null.
Line(kind, names, image, id) == [kind |-> kind, Names |-> names, Image |-> image, ID |-> id]

ExegolImage == "nwodtuhs/exegol"
OtherImage == "nginx"

\* "exegol" in image.lower() or "nwodtuhs/exegol" in image.lower()
IsExegol(image) == image = ExegolImage

\* the parse of one line: <<"append", descriptor>>, <<"skip">> (nothing to
\* append, or an exception the inner except catches), <<"raise">> (an
\* exception the inner except does not catch)
ParseLine(line) ==
    IF line.kind = "blank" THEN <<"skip">>
    ELSE IF line.kind = "bad_json" THEN <<"skip">>          \* json.JSONDecodeError
    ELSE IF line.kind = "not_object" THEN <<"skip">>        \* AttributeError: no .get
    ELSE IF line.Image = Null THEN <<"skip">>               \* AttributeError: None.lower
    ELSE IF ~IsExegol(line.Image) THEN <<"skip">>
    ELSE IF line.Names = Null THEN <<"skip">>               \* AttributeError: None.lstrip
    ELSE IF line.ID = Null THEN <<"raise">>                 \* TypeError: None[:12]
    ELSE <<"append", [name |-> line.Names, image |-> line.Image, id |-> line.ID]>>

\* the loop over the lines: the containers so far, or "raise" as soon as a
\* line raises
RECURSIVE ParseLines(_, _)
ParseLines(lines, containers) ==
    IF lines = <<>> THEN <<"ok", containers>>
    ELSE LET r == ParseLine(Head(lines))
         IN  IF r[1] = "raise" THEN <<"raise", containers>>
             ELSE ParseLines(Tail(lines),
                             IF r[1] = "append" THEN Append(containers, r[2])
                             ELSE containers)

\* containers as discover_containers builds them from _run_command's result
Discovered(result) ==
    IF result.success /\ result.stdout # <<>>
    THEN LET r == ParseLines(result.stdout, <<>>)
         IN  IF r[1] = "raise" THEN <<>> ELSE r[2]      \* except Exception: containers = []
    ELSE <<>>

\* the cache is used: not force_refresh and self.containers_cache and
\* (current_time - self.cache_timestamp) < self.cache_ttl
CacheFresh(force_refresh, current_time) ==
    /\ ~force_refresh
    /\ containers_cache # <<>>
    /\ (current_time - cache_timestamp) < cache_ttl

\* discover_containers up to its await: the cached list, or docker ps is run
DiscoverBegin(k, force_refresh) ==
    /\ FreeCall(k)
    /\ IF CacheFresh(force_refresh, now)
       THEN /\ ret' = [op |-> "discover", value |-> containers_cache, source |-> "cache"]
            /\ UNCHANGED <<calls, runtime_calls>>
       ELSE /\ calls' = [calls EXCEPT ![k] =
                    [IdleCall EXCEPT !.op = "discover", !.pc = "listing",
                                     !.current_time = now,
                                     !.force_refresh = force_refresh]]
            /\ runtime_calls' = [runtime_calls EXCEPT !["ps"] = @ + 1]
            /\ ret' = NoReturn
    /\ UNCHANGED <<now, containers_cache, cache_timestamp, procs, history_vars>>
    /\ UNCHANGED backend_vars
    /\ UNCHANGED added_vars

\* the cache is stamped with the time of the return, not of the call
DiscoverEndStampedOnReturn(k, result) ==
    /\ calls[k].op = "discover"
    /\ calls[k].pc = "listing"
    /\ containers_cache' = Discovered(result)
    /\ cache_timestamp' = now
    /\ calls' = [calls EXCEPT ![k] = IdleCall]
    /\ ret' = [op |-> "discover", value |-> Discovered(result), source |-> "runtime",
               result |-> result]
    /\ UNCHANGED <<now, runtime_calls, procs, history_vars>>
    /\ UNCHANGED backend_vars
    /\ UNCHANGED added_vars

\* _run_command has returned result: the cache is replaced and returned
DiscoverEnd(k, result) ==
    /\ calls[k].op = "discover"
    /\ calls[k].pc = "listing"
    /\ containers_cache' = Discovered(result)
    /\ cache_timestamp' = calls[k].current_time
    /\ calls' = [calls EXCEPT ![k] = IdleCall]
    /\ ret' = [op |-> "discover", value |-> Discovered(result), source |-> "runtime",
               result |-> result]
    /\ UNCHANGED <<now, runtime_calls, procs, history_vars>>
    /\ UNCHANGED backend_vars
    /\ UNCHANGED added_vars

\* time passes
Elapse(d) ==
    /\ now' = now + d
    /\ ret' = NoReturn
    /\ UNCHANGED <<containers_cache, cache_timestamp, calls, runtime_calls, procs,
                   history_vars>>
    /\ UNCHANGED backend_vars
    /\ UNCHANGED added_vars

-----------------------------------------------------------------------------
(* WebSocket connections *)

\* ConnectionManager.active_connections, in connect order
active_connections == <<1, 2>>

Connections == Range(active_connections)

\* ConnectionManager.assessment_connections: connection 1 subscribed to no
\* assessment, connection 2 to assessment 1
assessment_connections(assessment_id) == IF assessment_id = 1 THEN {2} ELSE {}

\* target_connections of a broadcast
TargetConnections(scope) ==
    IF scope = Global THEN Connections ELSE assessment_connections(scope)

-----------------------------------------------------------------------------
(* ConnectionManager: connect, disconnect, broadcast *)

\* the manager.broadcast coroutines there can be at a time, and the
\* WebSockets that are ever accepted
MaxBroadcasts == 2
MaxSockets == 3

BroadcastIds == 1..MaxBroadcasts

\* A broadcast in flight.  assessment_id: Global for None; index: the
\* position of the iteration in the list active_connections; size: the size
\* of the set iterated when the iteration began; visited: the connections
\* send_text was called on; connection: the one whose send is awaited;
\* disconnected: the list of those whose send raised; targets: the target
\* connections when the broadcast began; interfered: a connect or a
\* disconnect by a client took place since.
IdleBroadcast ==
    [pc |-> "idle", assessment_id |-> Global, index |-> 0, size |-> 0, visited |-> {},
     connection |-> 0, disconnected |-> <<>>, targets |-> {}, interfered |-> FALSE]

\* the list without its first occurrence of websocket, and every set
\* without websocket
Disconnected(m, websocket) ==
    [m EXCEPT !.active_connections = RemoveFirst(@, websocket),
              !.assessment_connections = [a \in DOMAIN @ |-> @[a] \ {websocket}]]

\* for connection in disconnected: self.disconnect(connection)
RECURSIVE CleanedUp(_, _)
CleanedUp(m, disconnected) ==
    IF disconnected = <<>> THEN m
    ELSE CleanedUp(Disconnected(m, Head(disconnected)), Tail(disconnected))

\* target_connections: the set of the assessment, or the list of all
TargetsOf(m, assessment_id) ==
    IF assessment_id # Global THEN m.assessment_connections[assessment_id]
    ELSE Range(m.active_connections)

\* a client's connect or disconnect is noted on the broadcasts in flight
Interfered ==
    [b \in BroadcastIds |->
        IF broadcasts[b].pc = "idle" THEN broadcasts[b]
        ELSE [broadcasts[b] EXCEPT !.interfered = TRUE]]

\* what a broadcast that ended did
BroadcastReturn(b, raised, visited, disconnected) ==
    <<[assessment_id |-> broadcasts[b].assessment_id, raised |-> raised,
       targets |-> broadcasts[b].targets, visited |-> visited,
       failed |-> Range(disconnected), interfered |-> broadcasts[b].interfered]>>

\* connect(websocket, assessment_id) after await websocket.accept(): the
\* WebSocket is appended to the list and added to the set of its assessment
Connect(assessment_id) ==
    /\ manager.accepted < MaxSockets
    /\ LET websocket == manager.accepted + 1
       IN  manager' =
            [manager EXCEPT
                !.accepted = websocket,
                !.active_connections = Append(@, websocket),
                !.assessment_connections =
                    IF assessment_id # Global
                    THEN [@ EXCEPT ![assessment_id] = @ \cup {websocket}]
                    ELSE @]
    /\ broadcasts' = Interfered
    /\ broadcast_ret' = <<>>
    /\ UNCHANGED <<now, backend_vars, mcp_vars, provider_vars>>

\* disconnect(websocket), called by the endpoint when its client is gone
Disconnect(websocket) ==
    /\ websocket \in Range(manager.active_connections)
    /\ manager' = Disconnected(manager, websocket)
    /\ broadcasts' = Interfered
    /\ broadcast_ret' = <<>>
    /\ UNCHANGED <<now, backend_vars, mcp_vars, provider_vars>>

\* a broadcast is taken by the first free slot
FreeBroadcast(b) ==
    /\ broadcasts[b].pc = "idle"
    /\ \A j \in BroadcastIds : j < b => broadcasts[j].pc # "idle"

\* broadcast(event, assessment_id) up to its first await: with no target it
\* returns, else send_text is called on the first connection: the head of
\* the list, or the element of the set its iterator yields first
BroadcastBegin(b, assessment_id) ==
    /\ FreeBroadcast(b)
    /\ LET targets == TargetsOf(manager, assessment_id)
       IN  IF targets = {}
           THEN /\ broadcast_ret' =
                        <<[assessment_id |-> assessment_id, raised |-> FALSE,
                           targets |-> {}, visited |-> {}, failed |-> {},
                           interfered |-> FALSE]>>
                /\ UNCHANGED broadcasts
           ELSE /\ \E connection \in targets :
                    /\ assessment_id = Global => connection = manager.active_connections[1]
                    /\ broadcasts' = [broadcasts EXCEPT ![b] =
                            [IdleBroadcast EXCEPT !.pc = "sending",
                                                  !.assessment_id = assessment_id,
                                                  !.index = 1,
                                                  !.size = Cardinality(targets),
                                                  !.visited = {connection},
                                                  !.connection = connection,
                                                  !.targets = targets]]
                /\ broadcast_ret' = <<>>
    /\ UNCHANGED manager
    /\ UNCHANGED <<now, backend_vars, mcp_vars, provider_vars>>

\* the broadcast ends: the failed connections are disconnected
BroadcastEnds(b, disconnected) ==
    /\ manager' = CleanedUp(manager, disconnected)
    /\ broadcasts' = [broadcasts EXCEPT ![b] = IdleBroadcast]
    /\ broadcast_ret' = BroadcastReturn(b, FALSE, broadcasts[b].visited, disconnected)

\* the broadcast goes on with connection
BroadcastGoesOn(b, disconnected, connection) ==
    /\ broadcasts' = [broadcasts EXCEPT ![b].disconnected = disconnected,
                                        ![b].index = @ + 1,
                                        ![b].visited = @ \cup {connection},
                                        ![b].connection = connection]
    /\ broadcast_ret' = <<>>
    /\ UNCHANGED manager

\* await connection.send_text(message) is over: it returned (sent) or
\* raised, and the loop takes its next connection.  The list is iterated by
\* position, as it is at that time; the iterator of the set raises
\* RuntimeError when the size of the set has changed, and the exception
\* leaves broadcast.
BroadcastSent(b, sent) ==
    /\ broadcasts[b].pc = "sending"
    /\ LET br == broadcasts[b]
           disconnected == IF sent THEN br.disconnected
                           ELSE Append(br.disconnected, br.connection)
       IN  IF br.assessment_id = Global
           THEN IF br.index + 1 <= Len(manager.active_connections)
                THEN BroadcastGoesOn(b, disconnected,
                                     manager.active_connections[br.index + 1])
                ELSE BroadcastEnds(b, disconnected)
           ELSE LET connections == manager.assessment_connections[br.assessment_id]
                IN  IF Cardinality(connections) # br.size
                    THEN /\ broadcasts' = [broadcasts EXCEPT ![b] = IdleBroadcast]
                         /\ broadcast_ret' =
                                BroadcastReturn(b, TRUE, br.visited, disconnected)
                         /\ UNCHANGED manager
                    ELSE IF connections \ br.visited # {}
                    THEN \E connection \in connections \ br.visited :
                            BroadcastGoesOn(b, disconnected, connection)
                    ELSE BroadcastEnds(b, disconnected)
    /\ UNCHANGED <<now, backend_vars, mcp_vars, provider_vars>>

-----------------------------------------------------------------------------
(* Request handlers as tasks *)

\* kind: the handler; pc: where it is; command_id: the row it is about (0: none);
\* outbox: the broadcasts it still has to make; at, reason: values it computed
\* before an await; status_filter, assessment_filter: a list request's filters.
\* served: the connections the broadcast under way has already sent to.
IdleTask ==
    [kind |-> "none", pc |-> "idle", command_id |-> 0, outbox |-> <<>>,
     at |-> NoInt, reason |-> Null, status_filter |-> Null, assessment_filter |-> 0,
     served |-> {}]

\* a request is taken by the first free slot
Free(t) ==
    /\ tasks[t].pc = "idle"
    /\ \A u \in TaskIds : u < t => tasks[u].pc # "idle"

\* a handler's return value: the HTTP outcome, and for a read the ids of the
\* rows it reports with status pending
Response(kind, command_id, outcome, pending) ==
    [kind |-> kind, command_id |-> command_id, outcome |-> outcome, pending |-> pending]

NoResponse == Response("none", 0, Null, {})

Sending(kind, command_id, outbox) ==
    [IdleTask EXCEPT !.kind = kind, !.pc = "broadcast", !.command_id = command_id,
                     !.outbox = outbox]

\* no credential stored, no command run
NoCredentials ==
    /\ credentials = <<>>
    /\ command_log = <<>>

\* nothing stored under output_max_length
NoPlatformSettings == platform_output_max_length = <<>>

\* ConnectionManager.__init__: no connection, no broadcast under way.
\* assessment_connections[a] is the empty set also for an a that is no key
\* of the dict; accepted counts the WebSockets accepted so far.
NoConnections ==
    /\ manager = [active_connections |-> <<>>,
                  assessment_connections |-> [a \in AssessmentIds |-> {}],
                  accepted |-> 0]
    /\ broadcasts = [b \in BroadcastIds |-> IdleBroadcast]
    /\ broadcast_ret = <<>>

\* AidaMCPService.__init__
InitMCP ==
    /\ containers_cache = <<>>
    /\ cache_timestamp = 0
    /\ calls = [k \in CallIds |-> IdleCall]
    /\ ret = NoReturn
    /\ runtime_calls = NoRuntimeCalls
    /\ procs = [k \in CallIds |-> NoProcess]
    /\ command_history = <<>>
    /\ invocations = 0
    /\ completions = <<>>
    /\ output_max_length = DEFAULT_OUTPUT_MAX_LENGTH
    /\ output_max_length_cache_time = 0

Init ==
    /\ now = 0
    /\ settings \in [execution_mode : {DEFAULT_EXECUTION_MODE},
                     filter_keywords : {DEFAULT_FILTER_KEYWORDS},
                     timeout_seconds : Timeouts]
    /\ rows = <<>>
    /\ tasks = [t \in TaskIds |-> IdleTask]
    /\ response = NoResponse
    /\ events = <<>>
    /\ runs = <<>>
    /\ settings_events = 0
    /\ decision = <<>>
    /\ delivered = [c \in Connections |-> <<>>]
    /\ sending = [c \in Connections |-> <<>>]
    /\ InitMCP
    /\ NoCredentials
    /\ NoPlatformSettings
    /\ NoConnections

\* time passes
Tick ==
    /\ now' = now + 1
    /\ response' = NoResponse
    /\ UNCHANGED <<settings, rows, tasks, events, runs, settings_events, decision>>
    /\ UNCHANGED beyond_store
    /\ UNCHANGED added_vars

\* the handler of slot t returns r
Return(t, r) ==
    /\ tasks' = [tasks EXCEPT ![t] = IdleTask]
    /\ response' = r

-----------------------------------------------------------------------------
(* approve_command: POST /pending-commands/{id}/approve *)

ExecResults == {"success"}

\* load the row, check it, and start the execution
ApproveBegin(t, id) ==
    /\ Free(t)
    /\ IF id \notin DOMAIN rows
       THEN /\ Return(t, Response("approve", id, "not_found", {}))
            /\ UNCHANGED runs
       ELSE IF ~IsResolvable(rows[id])
       THEN /\ Return(t, Response("approve", id, "already_resolved", {}))
            /\ UNCHANGED runs
       ELSE /\ tasks' = [tasks EXCEPT ![t] =
                    [IdleTask EXCEPT !.kind = "approve", !.pc = "executing",
                                     !.command_id = id]]
            /\ runs' = [runs EXCEPT ![id] = @ + 1]
            /\ response' = NoResponse
    /\ UNCHANGED <<now, settings, rows, events, settings_events, decision>>
    /\ UNCHANGED beyond_store
    /\ UNCHANGED added_vars

\* the execution has returned: write the row and commit
ApproveCommit(t) ==
    /\ tasks[t].kind = "approve"
    /\ tasks[t].pc = "executing"
    /\ \E result \in ExecResults :
        LET id == tasks[t].command_id
            cmd == [rows[id] EXCEPT !.status = "executed",
                                    !.resolved_by = Approver,
                                    !.resolved_at = now,
                                    !.execution_result = result]
        IN  /\ rows' = [rows EXCEPT ![id] = cmd]
            /\ tasks' = [tasks EXCEPT ![t] =
                    Sending("approve", id, ResolutionEvents("command_approved", id, cmd))]
    /\ response' = NoResponse
    /\ UNCHANGED <<now, settings, events, runs, settings_events, decision>>
    /\ UNCHANGED beyond_store
    /\ UNCHANGED added_vars

-----------------------------------------------------------------------------
(* reject_command: POST /pending-commands/{id}/reject *)

\* load the row, check it, and set the fields on the session's object
RejectBegin(t, id, reason) ==
    /\ Free(t)
    /\ IF id \notin DOMAIN rows
       THEN Return(t, Response("reject", id, "not_found", {}))
       ELSE IF ~IsResolvable(rows[id])
       THEN Return(t, Response("reject", id, "already_resolved", {}))
       ELSE /\ tasks' = [tasks EXCEPT ![t] =
                    [IdleTask EXCEPT !.kind = "reject", !.pc = "committing",
                                     !.command_id = id, !.at = now, !.reason = reason]]
            /\ response' = NoResponse
    /\ UNCHANGED <<now, settings, rows, events, runs, settings_events, decision>>
    /\ UNCHANGED beyond_store
    /\ UNCHANGED added_vars

\* commit: the UPDATE writes the attributes that changed on the session's object
RejectCommit(t) ==
    /\ tasks[t].kind = "reject"
    /\ tasks[t].pc = "committing"
    /\ LET id == tasks[t].command_id
           cmd == [rows[id] EXCEPT !.status = "rejected",
                                   !.resolved_by = Approver,
                                   !.rejection_reason =
                                        IF tasks[t].reason # Null THEN tasks[t].reason ELSE @,
                                   !.resolved_at = tasks[t].at]
       IN  /\ rows' = [rows EXCEPT ![id] = cmd]
           /\ tasks' = [tasks EXCEPT ![t] =
                    Sending("reject", id, ResolutionEvents("command_rejected", id, cmd))]
    /\ response' = NoResponse
    /\ UNCHANGED <<now, settings, events, runs, settings_events, decision>>
    /\ UNCHANGED beyond_store
    /\ UNCHANGED added_vars

-----------------------------------------------------------------------------
(* Reads: list_pending_commands, get_pending_count, get_pending_command *)

ReadKinds == {"list", "count", "get"}

PendingAmong(rs, ids) == {i \in ids : rs[i].status = "pending"}

\* what the handler's query returns, from the rows as they are when it runs
QueryResult(task, rs) ==
    CASE task.kind = "list" ->
            Response("list", 0, "ok",
                PendingAmong(rs,
                    {j \in DOMAIN rs :
                        /\ task.status_filter # Null => rs[j].status = task.status_filter
                        /\ task.assessment_filter # 0 =>
                                rs[j].assessment_id = task.assessment_filter}))
      [] task.kind = "count" ->
            Response("count", 0, "ok", PendingAmong(rs, DOMAIN rs))
      [] OTHER ->
            IF task.command_id \in DOMAIN rs
            THEN Response("get", task.command_id, "ok",
                          PendingAmong(rs, {task.command_id}))
            ELSE Response("get", task.command_id, "not_found", {})

\* the sweep, then either the timeout broadcasts or, when nothing timed out,
\* the query right away
ReadBegin(t, kind, id, status_filter, assessment_filter) ==
    /\ Free(t)
    /\ LET timeout_seconds == get_command_settings(settings).timeout_seconds
           ids == TimedOutIds(rows, now, timeout_seconds)
           swept == Swept(rows, now, timeout_seconds)
           task == [IdleTask EXCEPT !.kind = kind, !.command_id = id,
                                    !.status_filter = status_filter,
                                    !.assessment_filter = assessment_filter]
       IN  /\ rows' = swept
           /\ IF ids = <<>>
              THEN Return(t, QueryResult(task, swept))
              ELSE /\ tasks' = [tasks EXCEPT ![t] =
                        [task EXCEPT !.pc = "broadcast", !.outbox = TimeoutEvents(ids)]]
                   /\ response' = NoResponse
    /\ UNCHANGED <<now, settings, events, runs, settings_events, decision>>
    /\ UNCHANGED beyond_store
    /\ UNCHANGED added_vars

ReadQuery(t) ==
    /\ tasks[t].pc = "query"
    /\ Return(t, QueryResult(tasks[t], rows))
    /\ UNCHANGED <<now, settings, rows, events, runs, settings_events, decision>>
    /\ UNCHANGED beyond_store
    /\ UNCHANGED added_vars

-----------------------------------------------------------------------------
(* manager.broadcast, one call per step *)

Broadcast(t) ==
    /\ tasks[t].pc = "broadcast"
    /\ LET e == Head(tasks[t].outbox)
       IN  events' = [events EXCEPT ![e.command_id] = Append(@, e)]
    /\ IF Len(tasks[t].outbox) > 1
       THEN /\ tasks' = [tasks EXCEPT ![t].outbox = Tail(@)]
            /\ response' = NoResponse
       ELSE IF tasks[t].kind \in ReadKinds
       THEN /\ tasks' = [tasks EXCEPT ![t].outbox = <<>>, ![t].pc = "query"]
            /\ response' = NoResponse
       ELSE Return(t, Response(tasks[t].kind, tasks[t].command_id, "ok", {}))
    /\ UNCHANGED <<now, settings, rows, runs, settings_events, decision>>
    /\ UNCHANGED beyond_store
    /\ UNCHANGED added_vars

-----------------------------------------------------------------------------
(* Submitting a command *)

\* execute_command: POST /assessments/{id}/commands/execute.  The command is
\* handed to ContainerService.execute_and_log_command; the handler reads no
\* command setting.
ExecuteCommand(t, assessment_id, command) ==
    /\ Free(t)
    /\ IF assessment_id \notin AssessmentIds
       THEN Return(t, Response("execute", 0, "not_found", {}))
       ELSE Return(t, Response("execute", 0, "ok", {}))
    /\ UNCHANGED <<now, settings, rows, events, runs, settings_events, decision>>
    /\ UNCHANGED beyond_store
    /\ UNCHANGED added_vars

\* create_pending_command: POST /pending-commands/create.  The row is
\* committed, then command_pending_approval is broadcast.
CreatePending(t, assessment_id, command, matched_keywords) ==
    /\ Free(t)
    /\ IF assessment_id \notin AssessmentIds
       THEN /\ Return(t, Response("create", 0, "not_found", {}))
            /\ UNCHANGED <<rows, events, runs>>
       ELSE LET timeout_sec == get_command_settings(settings).timeout_seconds
                id == Len(rows) + 1
            IN  /\ rows' = Append(rows,
                        NewPendingCommand(assessment_id, command, matched_keywords,
                                          timeout_sec, now))
                /\ tasks' = [tasks EXCEPT ![t] =
                        Sending("create", id,
                                <<Event("command_pending_approval", id, Global)>>)]
                /\ events' = Append(events, <<>>)
                /\ runs' = Append(runs, 0)
                /\ response' = NoResponse
    /\ UNCHANGED <<now, settings, settings_events, decision>>
    /\ UNCHANGED beyond_store
    /\ UNCHANGED added_vars

-----------------------------------------------------------------------------
(* Command settings routes *)

SaturatingInc(n) == IF n < MaxSettingsEvents THEN n + 1 ELSE n

\* update_settings: a bad execution_mode raises before anything is written
UpdateSettings(update) ==
    /\ IF UpdateSettingsBadMode(update)
       THEN /\ response' = Response("update_settings", 0, "bad_request", {})
            /\ UNCHANGED <<settings, settings_events>>
       ELSE /\ settings' = UpdatedSettings(settings, update)
            /\ settings_events' = SaturatingInc(settings_events)
            /\ response' = NoResponse
    /\ UNCHANGED <<now, rows, tasks, events, runs, decision>>
    /\ UNCHANGED beyond_store
    /\ UNCHANGED added_vars

AddKeyword(raw) ==
    /\ settings' = [settings EXCEPT
            !.filter_keywords = KeywordsAfterAdd(settings.filter_keywords, raw)]
    /\ response' = NoResponse
    /\ UNCHANGED <<now, rows, tasks, events, runs, settings_events, decision>>
    /\ UNCHANGED beyond_store
    /\ UNCHANGED added_vars

RemoveKeyword(raw) ==
    /\ settings' = [settings EXCEPT
            !.filter_keywords = KeywordsAfterRemove(settings.filter_keywords, raw)]
    /\ response' = NoResponse
    /\ UNCHANGED <<now, rows, tasks, events, runs, settings_events, decision>>
    /\ UNCHANGED beyond_store
    /\ UNCHANGED added_vars

\* max_length != -1 and (max_length < 500 or max_length > 100000) is refused
OutputMaxLengthValid(max_length) ==
    max_length = -1 \/ (max_length >= 500 /\ max_length <= 100000)

\* update_platform_setting: PUT /system/settings/{key}.  output_max_length is
\* validated and stored; the key of the execution mode is stored as sent.
\* No event is broadcast and nothing is told to the MCP service.
UpdatePlatformSetting(key, value) ==
    /\ key \in {"command_execution_mode", "output_max_length"}
    /\ IF key = "output_max_length"
       THEN /\ IF OutputMaxLengthValid(value)
               THEN /\ platform_output_max_length' = <<value>>
                    /\ response' = Response("update_platform_setting", 0, "ok", {})
               ELSE /\ response' =
                            Response("update_platform_setting", 0, "bad_request", {})
                    /\ UNCHANGED platform_output_max_length
            /\ UNCHANGED settings
       ELSE /\ settings' = [settings EXCEPT !.execution_mode = value]
            /\ response' = Response("update_platform_setting", 0, "ok", {})
            /\ UNCHANGED platform_output_max_length
    /\ UNCHANGED <<now, rows, tasks, events, runs, settings_events, decision>>
    /\ UNCHANGED beyond_store
    /\ UNCHANGED <<output_max_length, output_max_length_cache_time, manager_vars>>

\* the gateway's policy decision on a command, under the current settings
ClassifyCommand(command) ==
    /\ decision' = <<[command |-> command,
                      config |-> get_command_settings(settings),
                      result |-> Classify(command, get_command_settings(settings))]>>
    /\ response' = NoResponse
    /\ UNCHANGED <<now, settings, rows, tasks, events, runs, settings_events>>
    /\ UNCHANGED beyond_store
    /\ UNCHANGED added_vars

-----------------------------------------------------------------------------
(* The pending-command workflow *)

ModeUpdates == {Null, "bogus"} \cup ExecutionModes
TimeoutUpdates == {NoInt} \cup Timeouts

WorkflowUpdates ==
    [execution_mode : ModeUpdates, filter_keywords : {NoKeywords},
     timeout_seconds : TimeoutUpdates]

\* the read requests: list with its filters, count, get by id
ReadRequests(ids) ==
    [kind : {"list"}, id : {0}, status_filter : {Null, "pending"},
     assessment_filter : {0, 1}]
    \cup [kind : {"count"}, id : {0}, status_filter : {Null}, assessment_filter : {0}]
    \cup [kind : {"get"}, id : ids, status_filter : {Null}, assessment_filter : {0}]

SubmitAssessments == AssessmentIds \cup {UnknownAssessment}

\* PendingCommandCreate.matched_keywords as the caller sends it
MatchedSets == {{}, {Str_rm}}

\* the ids a request may name: the rows there can be, and one there is not
CommandIds == 1..(MaxRows + 1)

Next ==
    \/ now < MaxTime /\ Tick
    \/ \E t \in TaskIds, id \in CommandIds : ApproveBegin(t, id)
    \/ \E t \in TaskIds : ApproveCommit(t)
    \/ \E t \in TaskIds, id \in CommandIds, reason \in RejectionReasons :
            RejectBegin(t, id, reason)
    \/ \E t \in TaskIds : RejectCommit(t)
    \/ \E t \in TaskIds, r \in ReadRequests(CommandIds) :
            ReadBegin(t, r.kind, r.id, r.status_filter, r.assessment_filter)
    \/ \E t \in TaskIds : ReadQuery(t)
    \/ \E t \in TaskIds : Broadcast(t)
    \/ \E t \in TaskIds, a \in SubmitAssessments, c \in Commands, m \in MatchedSets :
            Len(rows) < MaxRows /\ CreatePending(t, a, c, m)
    \/ \E t \in TaskIds, a \in SubmitAssessments, c \in Commands : ExecuteCommand(t, a, c)
    \/ \E u \in WorkflowUpdates : UpdateSettings(u)

Spec == Init /\ [][Next]_vars

-----------------------------------------------------------------------------
(* The sweep on several rows: creations, reads and the clock *)

SweepCommandIds == 1..MaxSweepRows

NextSweep ==
    \/ now < MaxSweepTime /\ Tick
    \/ \E t \in TaskIds, r \in ReadRequests(SweepCommandIds) :
            ReadBegin(t, r.kind, r.id, r.status_filter, r.assessment_filter)
    \/ \E t \in TaskIds : ReadQuery(t)
    \/ \E t \in TaskIds : Broadcast(t)
    \/ \E t \in TaskIds, c \in Commands, m \in MatchedSets :
            Len(rows) < MaxSweepRows /\ CreatePending(t, 1, c, m)
    \/ \E u \in WorkflowUpdates : UpdateSettings(u)

SpecSweep == Init /\ [][NextSweep]_vars

-----------------------------------------------------------------------------
(* The policy: settings operations and classification *)

KeywordInputs == {Str_rm, Str_RM, Str_sp_Rm, Str_dd}
KeywordLists == {<<>>, <<Str_rm>>, <<Str_RM>>, <<Str_dd, Str_rm>>, <<Str_rm, Str_rm>>}
PolicyCommands == {Str_ls, Str_rm_x, Str_RM_x}

PolicyUpdates ==
    [execution_mode : ModeUpdates \cup {""},
     filter_keywords : {NoKeywords} \cup KeywordLists,
     timeout_seconds : {NoInt}]

NextPolicy ==
    \/ \E u \in PolicyUpdates : UpdateSettings(u)
    \/ \E k \in KeywordInputs : AddKeyword(k)
    \/ \E k \in KeywordInputs : RemoveKeyword(k)
    \/ \E value \in ModeUpdates \ {Null} :
            UpdatePlatformSetting("command_execution_mode", value)
    \/ \E c \in PolicyCommands : ClassifyCommand(c)

SpecPolicy == Init /\ [][NextPolicy]_vars

-----------------------------------------------------------------------------
(* manager.broadcast, one connection.send_text per step *)

\* the connections the broadcast of event e has still to send to
Unserved(task, e) == TargetConnections(e.scope) \ task.served

\* for connection in target_connections: the global broadcast walks the list
\* active_connections in order, the assessment's broadcast walks a set, whose
\* order is any
NextTargets(task, e) ==
    IF e.scope = Global
    THEN {c \in Unserved(task, e) :
            \A k, j \in DOMAIN active_connections :
                (active_connections[k] = c /\ active_connections[j] \in Unserved(task, e))
                    => k <= j}
    ELSE Unserved(task, e)

\* the broadcasts at the head of the outbox that have nothing left to send are
\* over: the handler goes on to the next one
RECURSIVE Advance(_)
Advance(task) ==
    IF task.outbox = <<>> \/ Unserved(task, Head(task.outbox)) # {}
    THEN task
    ELSE Advance([task EXCEPT !.outbox = Tail(@), !.served = {}])

RECURSIVE Logged(_, _)
Logged(ev, done) ==
    IF done = <<>> THEN ev
    ELSE Logged([ev EXCEPT ![Head(done).command_id] = Append(@, Head(done))], Tail(done))

\* the sends to one connection end in the order they began
SendOver(t) ==
    \A c \in Connections : t \in Range(sending[c]) => Head(sending[c]) = t

Without(t) ==
    [c \in Connections |-> IF t \in Range(sending[c]) THEN Tail(sending[c]) ELSE sending[c]]

\* the send under way is over; the handler starts its next send, or, with
\* nothing left to send, goes on
Send(t) ==
    /\ tasks[t].pc = "broadcast"
    /\ SendOver(t)
    /\ LET task == Advance(tasks[t])
           done == SubSeq(tasks[t].outbox, 1, Len(tasks[t].outbox) - Len(task.outbox))
       IN  /\ events' = Logged(events, done)
           /\ IF task.outbox # <<>>
              THEN \E c \in NextTargets(task, Head(task.outbox)) :
                    /\ delivered' = [delivered EXCEPT ![c] = Append(@, Head(task.outbox))]
                    /\ sending' = [Without(t) EXCEPT ![c] = Append(@, t)]
                    /\ tasks' = [tasks EXCEPT ![t] = [task EXCEPT !.served = @ \cup {c}]]
                    /\ response' = NoResponse
              ELSE /\ UNCHANGED delivered
                   /\ sending' = Without(t)
                   /\ IF tasks[t].kind \in ReadKinds
                      THEN /\ tasks' = [tasks EXCEPT ![t] = [task EXCEPT !.pc = "query"]]
                           /\ response' = NoResponse
                      ELSE Return(t, Response(tasks[t].kind, tasks[t].command_id, "ok", {}))
    /\ UNCHANGED <<now, settings, rows, runs, settings_events, decision>>
    /\ UNCHANGED mcp_vars
    /\ UNCHANGED added_vars
    /\ UNCHANGED cred_vars

\* a handler whose code before the broadcast has no await (a synchronous
\* session) starts the first send in the step of its commit
FirstSend(task) ==
    [task EXCEPT !.served = {active_connections[1]}]

DeliveredFirst(dl, e) ==
    [dl EXCEPT ![active_connections[1]] = Append(@, e)]

SendingFirst(t) ==
    [sending EXCEPT ![active_connections[1]] = Append(@, t)]

\* create_pending_command with its first send
CreateNotify(t, assessment_id, command, matched_keywords) ==
    /\ Free(t)
    /\ IF assessment_id \notin AssessmentIds
       THEN /\ Return(t, Response("create", 0, "not_found", {}))
            /\ UNCHANGED <<rows, events, runs, delivered, sending>>
       ELSE LET timeout_sec == get_command_settings(settings).timeout_seconds
                id == Len(rows) + 1
                e == Event("command_pending_approval", id, Global)
            IN  /\ rows' = Append(rows,
                        NewPendingCommand(assessment_id, command, matched_keywords,
                                          timeout_sec, now))
                /\ tasks' = [tasks EXCEPT ![t] = FirstSend(Sending("create", id, <<e>>))]
                /\ delivered' = DeliveredFirst(delivered, e)
                /\ sending' = SendingFirst(t)
                /\ events' = Append(events, <<>>)
                /\ runs' = Append(runs, 0)
                /\ response' = NoResponse
    /\ UNCHANGED <<now, settings, settings_events, decision>>
    /\ UNCHANGED mcp_vars
    /\ UNCHANGED added_vars
    /\ UNCHANGED cred_vars

\* a read: the sweep with the first send of its first command_timeout, or,
\* when nothing timed out, the query right away
ReadNotify(t, kind, id, status_filter, assessment_filter) ==
    /\ Free(t)
    /\ LET timeout_seconds == get_command_settings(settings).timeout_seconds
           ids == TimedOutIds(rows, now, timeout_seconds)
           swept == Swept(rows, now, timeout_seconds)
           task == [IdleTask EXCEPT !.kind = kind, !.command_id = id,
                                    !.status_filter = status_filter,
                                    !.assessment_filter = assessment_filter]
       IN  /\ rows' = swept
           /\ IF ids = <<>>
              THEN /\ Return(t, QueryResult(task, swept))
                   /\ UNCHANGED <<delivered, sending>>
              ELSE /\ tasks' = [tasks EXCEPT ![t] =
                        FirstSend([task EXCEPT !.pc = "broadcast",
                                               !.outbox = TimeoutEvents(ids)])]
                   /\ delivered' = DeliveredFirst(delivered, TimeoutEvents(ids)[1])
                   /\ sending' = SendingFirst(t)
                   /\ response' = NoResponse
    /\ UNCHANGED <<now, settings, events, runs, settings_events, decision>>
    /\ UNCHANGED mcp_vars
    /\ UNCHANGED added_vars
    /\ UNCHANGED cred_vars

DeliveryReads ==
    [kind : {"count"}, id : {0}, status_filter : {Null}, assessment_filter : {0}]
    \cup [kind : {"get"}, id : {1}, status_filter : {Null}, assessment_filter : {0}]

NextDelivery ==
    \/ now < MaxTime /\ Tick
    \/ \E t \in TaskIds, a \in SubmitAssessments, c \in Commands :
            Len(rows) < MaxRows /\ CreateNotify(t, a, c, {})
    \/ \E t \in TaskIds, id \in CommandIds : ApproveBegin(t, id)
    \/ \E t \in TaskIds : ApproveCommit(t)
    \/ \E t \in TaskIds, id \in CommandIds, reason \in RejectionReasons :
            RejectBegin(t, id, reason)
    \/ \E t \in TaskIds : RejectCommit(t)
    \/ \E t \in TaskIds, r \in DeliveryReads :
            ReadNotify(t, r.kind, r.id, r.status_filter, r.assessment_filter)
    \/ \E t \in TaskIds : ReadQuery(t)
    \/ \E t \in TaskIds : Send(t)

SpecDelivery == Init /\ [][NextDelivery]_vars

-----------------------------------------------------------------------------
(* Container discovery *)

MaxClock == 75
MaxRuntimeCalls == 3
MaxLines == 2

\* the service starts long after the epoch: time.time() is past cache_ttl
InitDiscovery ==
    /\ now = cache_ttl
    /\ settings = [execution_mode |-> DEFAULT_EXECUTION_MODE,
                   filter_keywords |-> DEFAULT_FILTER_KEYWORDS,
                   timeout_seconds |-> 0]
    /\ rows = <<>>
    /\ tasks = [t \in TaskIds |-> IdleTask]
    /\ response = NoResponse
    /\ events = <<>>
    /\ runs = <<>>
    /\ settings_events = 0
    /\ decision = <<>>
    /\ delivered = [c \in Connections |-> <<>>]
    /\ sending = [c \in Connections |-> <<>>]
    /\ InitMCP
    /\ NoCredentials
    /\ NoPlatformSettings
    /\ NoConnections

Elapses == {15, 29}

PsLines ==
    {Line("json", "exegol-aida", ExegolImage, "a1"),
     Line("json", "web", OtherImage, "b2"),
     Line("blank", Null, Null, Null),
     Line("bad_json", Null, Null, Null),
     Line("not_object", Null, Null, Null),
     Line("json", Null, ExegolImage, "c3"),
     Line("json", "exegol-x", ExegolImage, Null)}

RECURSIVE SeqsUpTo(_, _)
SeqsUpTo(S, n) ==
    IF n = 0 THEN {<<>>}
    ELSE SeqsUpTo(S, n - 1) \cup
         {Append(q, x) : q \in {r \in SeqsUpTo(S, n - 1) : Len(r) = n - 1}, x \in S}

\* what _run_command can return for docker ps
PsResults ==
    {CompletedResult(0, out, <<>>) : out \in SeqsUpTo(PsLines, MaxLines)}
    \cup {CompletedResult(1, <<>>, <<"error">>), TimeoutResult, NotFoundResult, FailedResult}

NextDiscovery ==
    \/ \E d \in Elapses : now + d <= MaxClock /\ Elapse(d)
    \/ \E k \in CallIds, force_refresh \in BOOLEAN :
            runtime_calls["ps"] < MaxRuntimeCalls /\ DiscoverBegin(k, force_refresh)
    \/ \E k \in CallIds, result \in PsResults : DiscoverEnd(k, result)

SpecDiscovery == InitDiscovery /\ [][NextDiscovery]_vars

-----------------------------------------------------------------------------
(* Running a command: _run_command and the process it spawns *)

\* the timeout argument: the default, and a shorter one
RunTimeouts == {10, 30}

\* what asyncio.create_subprocess_exec does
SpawnOutcomes == {"spawned", "missing", "error"}

\* the return codes and the stderr texts of a process
ReturnCodes == {0, 1, 2, 126, 127}
StderrTexts ==
    {<<>>, <<"Usage:">>, <<"invalid">>, <<"Not Found">>, <<"permission denied">>,
     <<"invalid", "not found">>, <<"usage:", "permission denied">>,
     <<"not found", "permission denied">>}

\* the clock steps of this specification, and where it stops
RunElapses == {10, 20}
MaxRunClock == 40

\* the backend at rest: these specifications leave it alone
IdleBackend ==
    /\ settings = [execution_mode |-> DEFAULT_EXECUTION_MODE,
                   filter_keywords |-> DEFAULT_FILTER_KEYWORDS,
                   timeout_seconds |-> 0]
    /\ rows = <<>>
    /\ tasks = [t \in TaskIds |-> IdleTask]
    /\ response = NoResponse
    /\ events = <<>>
    /\ runs = <<>>
    /\ settings_events = 0
    /\ decision = <<>>
    /\ delivered = [c \in Connections |-> <<>>]
    /\ sending = [c \in Connections |-> <<>>]

InitRun ==
    /\ now = 0
    /\ IdleBackend
    /\ InitMCP
    /\ NoCredentials
    /\ NoPlatformSettings
    /\ NoConnections

NextRun ==
    \/ \E d \in RunElapses : now + d <= MaxRunClock /\ Elapse(d)
    \/ \E k \in CallIds, timeout \in RunTimeouts, outcome \in SpawnOutcomes :
            /\ runtime_calls["exec"] < MaxRuntimeCalls
            /\ RunBegin(k, "exec", timeout, outcome)
    \/ \E k \in CallIds : ProcessExits(k)
    \/ \E k \in CallIds : ChildReaped(k)
    \/ \E k \in CallIds, returncode \in ReturnCodes, stderr \in StderrTexts :
            RunComplete(k, returncode, stderr)
    \/ \E k \in CallIds : RunTimeout(k)
    \/ \E k \in CallIds : RunKilled(k)

SpecRun == InitRun /\ [][NextRun]_vars

-----------------------------------------------------------------------------
(* _run_command as discover_containers, validate_container_status and
   execute_container_command call it *)

\* timeout: float = 30.0
DEFAULT_RUN_TIMEOUT == 30

\* the timeout a caller passes for a docker subcommand: none of the calls
\* (docker ps, docker inspect, docker start, docker exec) passes one
TimeoutPassed(command) == DEFAULT_RUN_TIMEOUT

\* the runtime invocations made
RuntimeCallsMade ==
    runtime_calls["ps"] + runtime_calls["inspect"] + runtime_calls["start"]
        + runtime_calls["exec"]

NextWaits ==
    \/ \E d \in RunElapses : now + d <= MaxRunClock /\ Elapse(d)
    \/ \E k \in CallIds, command \in DockerCommands, outcome \in SpawnOutcomes :
            /\ RuntimeCallsMade < MaxRuntimeCalls
            /\ RunBegin(k, command, TimeoutPassed(command), outcome)
    \/ \E k \in CallIds : ProcessExits(k)
    \/ \E k \in CallIds : ChildReaped(k)
    \/ \E k \in CallIds, returncode \in {0, 1}, stderr \in {<<>>} :
            RunComplete(k, returncode, stderr)
    \/ \E k \in CallIds : RunTimeout(k)
    \/ \E k \in CallIds : RunKilled(k)

SpecWaits == InitRun /\ [][NextWaits]_vars

-----------------------------------------------------------------------------
(* Validating the container: validate_container_status *)

\* self.current_container: none selected, or a name
CurrentContainers == {Null, "exegol-aida"}

\* what _run_command returns for docker inspect --format {{.State.Status}}:
\* a status, no such container, or one of its failures
InspectResults ==
    {CompletedResult(0, <<status>>, <<>>) :
        status \in {"running", "created", "exited", "paused", "restarting", "dead"}}
    \cup {CompletedResult(1, <<>>, <<"No such object">>), TimeoutResult,
          NotFoundResult, FailedResult}

\* and for docker start
StartResults ==
    {CompletedResult(0, <<"exegol-aida">>, <<>>),
     CompletedResult(1, <<>>, <<"permission denied">>), TimeoutResult}

InitValidate ==
    /\ now = 0
    /\ IdleBackend
    /\ InitMCP
    /\ NoCredentials
    /\ NoPlatformSettings
    /\ NoConnections

NextValidate ==
    \/ \E k \in CallIds, current_container \in CurrentContainers :
            runtime_calls["inspect"] < MaxRuntimeCalls
                /\ ValidateBegin(k, current_container)
    \/ \E k \in CallIds, result \in InspectResults : ValidateInspected(k, result)
    \/ \E k \in CallIds, start_result \in StartResults :
            ValidateStarted(k, start_result)

SpecValidate == InitValidate /\ [][NextValidate]_vars

-----------------------------------------------------------------------------
(* The command history: execute_container_command, one call after another
   and two at a time *)

\* the calls made, the calls that fail validation, and the calls that return
\* before a call made earlier
MaxInvocations == 52
MaxInvalid == 1
MaxOvertakes == 1

\* what validate_container_status returns to execute_container_command
Validations == {Validated("running"), NotValidated("Container not found")}

\* what _run_command returns for docker exec
DockerExecResults == {CompletedResult(0, <<>>, <<>>)}

\* calls that failed validation so far
Invalid ==
    invocations - runtime_calls["exec"]
        - Cardinality({k \in CallIds : calls[k].pc = "validating"})

\* entries that follow the entry of a later call
Overtaken(history) ==
    Cardinality({i \in 1..(Len(history) - 1) :
                    history[i + 1].invocation < history[i].invocation})

\* the calls that returned before a call made earlier: before one that has
\* returned since, or before one still in flight
Overtakes ==
    Cardinality({i \in 1..(Len(completions) - 1) :
                    completions[i + 1] < completions[i]})
    + Cardinality({i \in DOMAIN completions :
                    \E k \in CallIds : /\ calls[k].op = "execute"
                                       /\ calls[k].invocation < completions[i]})

\* a call made before call k is still in flight
EarlierInFlight(k) ==
    \E j \in CallIds : /\ calls[j].op = "execute"
                       /\ calls[j].invocation < calls[k].invocation

InitHistory ==
    /\ now = 0
    /\ IdleBackend
    /\ InitMCP
    /\ NoCredentials
    /\ NoPlatformSettings
    /\ NoConnections

NextHistory ==
    \/ \E k \in CallIds : /\ invocations < MaxInvocations
                           /\ ExecuteBegin(k, "exegol-aida", "exegol-aida")
    \/ \E k \in CallIds, validation \in Validations :
            /\ ~validation.success => Invalid < MaxInvalid
            /\ ExecuteValidated(k, validation)
    \/ \E k \in CallIds, result \in DockerExecResults :
            /\ EarlierInFlight(k) => Overtakes < MaxOvertakes
            /\ ExecuteEnd(k, result)

SpecHistory == InitHistory /\ [][NextHistory]_vars

-----------------------------------------------------------------------------
(* The output length setting: written through the backend, read by the MCP
   service through its cached getter *)

MaxProviderClock == 180

\* values a client sends for output_max_length: three that are accepted and
\* one that is refused
OutputMaxLengths == {-1, 500, 10000, 499}

ProviderElapses == {30, 60}

InitProvider ==
    /\ now = output_max_length_cache_ttl
    /\ IdleBackend
    /\ InitMCP
    /\ NoCredentials
    /\ NoPlatformSettings
    /\ NoConnections

NextProvider ==
    \/ \E d \in ProviderElapses : now + d <= MaxProviderClock /\ Elapse(d)
    \/ \E value \in OutputMaxLengths : UpdatePlatformSetting("output_max_length", value)
    \/ \E k \in CallIds : GetOutputMaxLengthBegin(k)
    \/ \E k \in CallIds : GetOutputMaxLengthServed(k)
    \/ \E k \in CallIds, ok \in BOOLEAN : GetOutputMaxLengthEnd(k, ok)

SpecProvider == InitProvider /\ [][NextProvider]_vars

-----------------------------------------------------------------------------
(* The ConnectionManager: clients connect and disconnect while events are
   broadcast *)

\* the audiences: None (every connection) and the assessments
Audiences == {Global} \cup AssessmentIds

NextManager ==
    \/ \E assessment_id \in Audiences : Connect(assessment_id)
    \/ \E websocket \in 1..MaxSockets : Disconnect(websocket)
    \/ \E b \in BroadcastIds, assessment_id \in Audiences : BroadcastBegin(b, assessment_id)
    \/ \E b \in BroadcastIds, sent \in BOOLEAN : BroadcastSent(b, sent)

SpecManager == InitRun /\ [][NextManager]_vars

-----------------------------------------------------------------------------
(* execute_container_command and the container it validates: the caller names
   a container, the service has its current container *)

\* the calls made
MaxExecutions == 3

\* the containers of the runtime
ContainerNames == {"exegol-aida", "exegol-other"}

\* what _run_command returns for docker exec
ExecuteResults == {CompletedResult(0, <<>>, <<>>), CompletedResult(1, <<>>, <<>>), TimeoutResult}

NextExecute ==
    \/ \E k \in CallIds, container_name \in ContainerNames,
          current_container \in ContainerNames \cup {Null} :
            /\ invocations < MaxExecutions
            /\ ExecuteBegin(k, container_name, current_container)
    \/ \E k \in CallIds :
         \E validation \in ValidationsOf(calls[k].current_container) :
            ExecuteValidated(k, validation)
    \/ \E k \in CallIds, result \in ExecuteResults : ExecuteEnd(k, result)

SpecExecute == InitHistory /\ [][NextExecute]_vars

-----------------------------------------------------------------------------
(* execute_command_with_credentials:
   POST /assessments/{id}/commands/execute-with-credentials *)

\* A command and a credential's text are sequences of words; NoneStr is
\* Python None / SQL NULL where the value is a text.
NoneStr == <<Null>>

\* the words of a command: the tokens {{A}}, {{B}}, {{C}} and a plain word
CommandWords == {"curl", "{{A}}", "{{B}}", "{{C}}"}

\* re.findall(r'\{\{([A-Z0-9_]+)\}\}', word): the name in a token, Null for a
\* word that is no token
PlaceholderIn(word) ==
    CASE word = "{{A}}" -> "A"
      [] word = "{{B}}" -> "B"
      [] word = "{{C}}" -> "C"
      [] OTHER -> Null

\* f"{{{{{placeholder}}}}}"
TokenOf(placeholder) ==
    CASE placeholder = "A" -> "{{A}}"
      [] placeholder = "B" -> "{{B}}"
      [] placeholder = "C" -> "{{C}}"

\* cred.placeholder.strip("{}")
StripBraces(placeholder) ==
    CASE placeholder = "{{A}}" -> "A"
      [] placeholder = "{{B}}" -> "B"
      [] placeholder = "{{C}}" -> "C"
      [] OTHER -> placeholder

\* re.findall over the command: the names found, in order, repeats included
RECURSIVE FindPlaceholders(_)
FindPlaceholders(command) ==
    IF command = <<>> THEN <<>>
    ELSE (IF PlaceholderIn(Head(command)) = Null THEN <<>>
          ELSE <<PlaceholderIn(Head(command))>>) \o FindPlaceholders(Tail(command))

\* command.replace(token, replacement): every occurrence
RECURSIVE Replace(_, _, _)
Replace(command, token, replacement) ==
    IF command = <<>> THEN <<>>
    ELSE (IF Head(command) = token THEN replacement ELSE <<Head(command)>>)
            \o Replace(Tail(command), token, replacement)

\* f"{x}" of a text or None
Formatted(text) == IF text = NoneStr THEN <<"None">> ELSE text

\* base64.b64encode(auth_str.encode()).decode()
B64(text) ==
    CASE text = <<"alice", ":", "pw">> -> <<"YWxpY2U6cHc=">>
      [] text = <<"None", ":", "pw">> -> <<"Tm9uZTpwdw==">>
      [] text = <<"alice", ":", "None">> -> <<"YWxpY2U6Tm9uZQ==">>
      [] text = <<"None", ":", "None">> -> <<"Tm9uZTpOb25l">>

\* custom_data: None, {} or {"k": "v"}; str(cred.custom_data or "")
NoData == "None"
EmptyData == "{}"
SomeData == "{'k': 'v'}"
DataStr(custom_data) ==
    IF custom_data \in {NoData, EmptyData} THEN <<>> ELSE <<custom_data>>

\* a row of table credentials
Credential(assessment_id, credential_type, placeholder, token, username, password, cookie_value, custom_data) ==
    [assessment_id |-> assessment_id, credential_type |-> credential_type,
     placeholder |-> placeholder, token |-> token, username |-> username,
     password |-> password, cookie_value |-> cookie_value,
     custom_data |-> custom_data]

\* the replacement value by credential type; NoneStr where the code's value is
\* None
Replacement(cred) ==
    IF cred.credential_type = "bearer_token" THEN cred.token
    ELSE IF cred.credential_type = "api_key" THEN cred.token
    ELSE IF cred.credential_type = "cookie" THEN cred.cookie_value
    ELSE IF cred.credential_type = "basic_auth"
        THEN B64(Formatted(cred.username) \o <<":">> \o Formatted(cred.password))
    ELSE IF cred.credential_type = "ssh"
        THEN Formatted(cred.username) \o <<":">> \o Formatted(cred.password)
    ELSE IF cred.credential_type = "custom"
        THEN IF cred.token \notin {NoneStr, <<>>} THEN cred.token
             ELSE DataStr(cred.custom_data)
    ELSE <<>>

\* select(Credential).filter(Credential.assessment_id == assessment_id)
CredentialsOf(assessment_id) ==
    SelectSeq(credentials, LAMBDA cred : cred.assessment_id = assessment_id)

\* creds_map[placeholder]: the last credential of the list with that key;
\* <<>> when placeholder not in creds_map
CredsMap(creds, placeholder) ==
    LET hits == SelectSeq(creds,
                    LAMBDA cred : StripBraces(cred.placeholder) = placeholder)
    IN  IF hits = <<>> THEN <<>> ELSE <<hits[Len(hits)]>>

\* The loop over the placeholders found.  <<"ok", command>>: the loop ends;
\* <<"not_found", placeholder>>: HTTPException 404; <<"type_error",
\* placeholder>>: command.replace raises TypeError on a None replacement.
RECURSIVE Substitute(_, _, _)
Substitute(command, placeholders, creds) ==
    IF placeholders = <<>> THEN <<"ok", command>>
    ELSE LET placeholder == Head(placeholders)
             found == CredsMap(creds, placeholder)
         IN  IF found = <<>> THEN <<"not_found", placeholder>>
             ELSE IF Replacement(found[1]) = NoneStr
                 THEN <<"type_error", placeholder>>
             ELSE Substitute(Replace(command, TokenOf(placeholder),
                                     Replacement(found[1])),
                             Tail(placeholders), creds)

\* the handler's return value: the HTTP outcome, the command sent, the
\* placeholder an error names, and the command run
CredentialResponse(assessment_id, outcome, command, placeholder, executed) ==
    [kind |-> "execute_with_credentials", command_id |-> 0, outcome |-> outcome,
     pending |-> {}, assessment_id |-> assessment_id, command |-> command,
     placeholder |-> placeholder, executed |-> executed]

\* the whole handler: assessment check, substitution,
\* container_service.execute_and_log_command
ExecuteWithCredentials(t, assessment_id, command) ==
    /\ Free(t)
    /\ IF assessment_id \notin AssessmentIds
       THEN /\ Return(t, CredentialResponse(assessment_id, "not_found", command, Null,
                                              <<>>))
            /\ UNCHANGED command_log
       ELSE LET result == Substitute(command, FindPlaceholders(command),
                                     CredentialsOf(assessment_id))
            IN  IF result[1] = "ok"
                THEN /\ command_log' = Append(command_log, result[2])
                     /\ Return(t, CredentialResponse(assessment_id, "ok", command,
                                                       Null, result[2]))
                ELSE /\ UNCHANGED command_log
                     /\ Return(t, CredentialResponse(assessment_id,
                            IF result[1] = "not_found" THEN "placeholder_not_found"
                            ELSE "internal_server_error",
                            command, result[2], <<>>))
    /\ UNCHANGED <<now, settings, rows, events, runs, settings_events, decision,
                   delivered, sending, credentials>>
    /\ UNCHANGED mcp_vars
    /\ UNCHANGED added_vars

\* create_credential: POST /assessments/{id}/credentials; a placeholder is
\* stored once per assessment
AddCredential(t, cred) ==
    /\ Free(t)
    /\ IF \E i \in DOMAIN credentials :
            /\ credentials[i].assessment_id = cred.assessment_id
            /\ credentials[i].placeholder = cred.placeholder
       THEN /\ Return(t, Response("add_credential", 0, "conflict", {}))
            /\ UNCHANGED credentials
       ELSE /\ credentials' = Append(credentials, cred)
            /\ Return(t, Response("add_credential", 0, "ok", {}))
    /\ UNCHANGED <<now, settings, rows, events, runs, settings_events, decision,
                   delivered, sending, command_log>>
    /\ UNCHANGED mcp_vars
    /\ UNCHANGED added_vars

-----------------------------------------------------------------------------
(* Credential substitution: credentials are stored, commands are sent *)

MaxCredentials == 2
MaxLogged == 1
MaxWords == 3

\* the texts of credential fields
Token == <<"tok">>
TokenB == <<"tokB">>
Username == <<"alice">>
Password == <<"pw">>
CookieValue == <<"sid=1">>

\* the credentials that can be stored: for {{A}} in assessment 1 one of each
\* type, with its fields present and absent; for {{B}} in assessment 1 a
\* bearer token; for {{C}} a credential of assessment 2 only
CredentialsA ==
    {Credential(1, "bearer_token", "{{A}}", token, NoneStr, NoneStr, NoneStr, NoData) :
        token \in {Token, NoneStr, <<"{{B}}">>}}
    \cup {Credential(1, "api_key", "{{A}}", Token, NoneStr, NoneStr, NoneStr, NoData)}
    \cup {Credential(1, "cookie", "{{A}}", NoneStr, NoneStr, NoneStr, cookie_value, NoData) :
            cookie_value \in {CookieValue, NoneStr}}
    \cup {Credential(1, type, "{{A}}", NoneStr, username, Password, NoneStr, NoData) :
            type \in {"basic_auth", "ssh"}, username \in {Username, NoneStr}}
    \cup {Credential(1, "custom", "{{A}}", token, NoneStr, NoneStr, NoneStr, custom_data) :
            token \in {Token, NoneStr}, custom_data \in {NoData, EmptyData, SomeData}}
StorableCredentials ==
    CredentialsA
    \cup {Credential(1, "bearer_token", "{{B}}", TokenB, NoneStr, NoneStr, NoneStr, NoData),
          Credential(2, "bearer_token", "{{C}}", Token, NoneStr, NoneStr, NoneStr, NoData)}

\* the commands sent: up to MaxWords words
SentCommands == UNION {[1..n -> CommandWords] : n \in 1..MaxWords}

InitCredentials ==
    /\ now = 0
    /\ IdleBackend
    /\ InitMCP
    /\ NoCredentials
    /\ NoPlatformSettings
    /\ NoConnections

NextCredentials ==
    \/ \E t \in TaskIds, cred \in StorableCredentials :
            Len(credentials) < MaxCredentials /\ AddCredential(t, cred)
    \/ \E t \in TaskIds, assessment_id \in AssessmentIds \cup {UnknownAssessment},
          command \in SentCommands :
            Len(command_log) < MaxLogged
                /\ ExecuteWithCredentials(t, assessment_id, command)

SpecCredentials == InitCredentials /\ [][NextCredentials]_vars

-----------------------------------------------------------------------------
(* Properties *)

Resolution == {"approve", "reject"}

\* a step in which an approve or reject request on row id is taken: either it
\* passed the precondition and is now in flight, or it returned at once
ResolutionBeginsOn(id) ==
    \/ \E t \in TaskIds :
        /\ tasks[t].pc = "idle"
        /\ tasks'[t].kind \in Resolution
        /\ tasks'[t].command_id = id
    \/ /\ tasks' = tasks
       /\ response'.kind \in Resolution
       /\ response'.command_id = id

\* a step in which a read request is taken (its sweep runs in this step)
ReadBegins ==
    \/ \E t \in TaskIds : tasks[t].pc = "idle" /\ tasks'[t].kind \in ReadKinds
    \/ tasks' = tasks /\ response'.kind \in ReadKinds

\* a row's limit: its own timeout_seconds if set, else the global default
LimitOf(cmd) ==
    IF cmd.timeout_seconds # NoInt THEN cmd.timeout_seconds ELSE settings.timeout_seconds

ElapsedOf(cmd) == now - cmd.created_at

PastCheck(t, id) ==
    /\ tasks[t].command_id = id
    /\ tasks[t].pc \in {"executing", "committing"}

\* C1: for every row, at most one approve/reject attempt gets past the
\* precondition, so the row's command is run through the Execution Runner at
\* most once.
C1_SingleResolution ==
    \A id \in DOMAIN rows :
        /\ runs[id] <= 1
        /\ \A t, u \in TaskIds : (PastCheck(t, id) /\ PastCheck(u, id)) => t = u

\* C2: no command is run immediately (an "execute" response) while
\* execution_mode is closed.
C2_ClosedNeverImmediate ==
    (response.kind = "execute" /\ response.outcome = "ok")
        => settings.execution_mode # "closed"

\* C3: executed, rejected and timeout are terminal: a row whose status is not
\* pending keeps its status in every step.
C3_TerminalStatus ==
    [][\A id \in DOMAIN rows :
            rows[id].status # "pending" => rows'[id].status = rows[id].status]_vars

\* C4: resolved_at is written exactly once: null while the row is pending, set
\* when it leaves pending, and never overwritten afterwards.
C4_ResolvedAtOnce ==
    [][\A id \in DOMAIN rows :
            /\ rows[id].status = "pending" <=> rows[id].resolved_at = NoInt
            /\ rows[id].resolved_at # NoInt
                    => rows'[id].resolved_at = rows[id].resolved_at]_vars

\* C5: an approve or reject taken on a row that is already executed, rejected
\* or timeout returns the already-resolved error (HTTP 400 "Command is already
\* ..."), runs nothing, changes no row and broadcasts nothing.
C5_ResolvedRowConflict ==
    [][\A id \in DOMAIN rows :
            (rows[id].status # "pending" /\ ResolutionBeginsOn(id))
                => /\ response'.outcome = "already_resolved"
                   /\ tasks' = tasks
                   /\ rows' = rows
                   /\ runs' = runs
                   /\ events' = events]_vars

C5_Witness ==
    /\ response.kind \in Resolution
    /\ response.outcome = "already_resolved"
    /\ rows[response.command_id].status = "timeout"
    /\ runs[response.command_id] = 0

\* C6 as amended: a read taken when a pending row's elapsed time is strictly
\* greater than its limit T sets the row to timeout, with resolved_at = now and
\* a rejection_reason naming T; a read taken when the elapsed time is at most T
\* (T itself included) leaves the row as it is.
C6_SweepStrictlyAfterLimit ==
    [][ReadBegins =>
        \A id \in DOMAIN rows :
            rows[id].status = "pending" =>
                IF ElapsedOf(rows[id]) > LimitOf(rows[id])
                THEN /\ rows'[id].status = "timeout"
                     /\ rows'[id].resolved_at = now
                     /\ rows'[id].rejection_reason =
                            "Auto-cancelled: exceeded "
                                \o ToString(LimitOf(rows[id])) \o "s timeout"
                ELSE rows'[id] = rows[id]]_vars

C6_Witness ==
    \E id \in DOMAIN rows :
        /\ rows[id].status = "timeout"
        /\ rows[id].resolved_at - rows[id].created_at = rows[id].timeout_seconds + 1
        /\ rows[id].rejection_reason = AutoCancelled(rows[id].timeout_seconds)

\* C6 as stated: a read taken when the elapsed time is greater than or equal
\* to T sets the row to timeout.
C6_SweepAtLimit ==
    [][ReadBegins =>
        \A id \in DOMAIN rows :
            (rows[id].status = "pending" /\ ElapsedOf(rows[id]) >= LimitOf(rows[id]))
                => /\ rows'[id].status = "timeout"
                   /\ rows'[id].resolved_at = now]_vars

\* C7: no read reports a row as pending whose elapsed time exceeds its limit
\* at the moment the handler's query reads the rows.
C7_NoStalePendingReturned ==
    response.kind \in ReadKinds =>
        \A id \in response.pending : ~(ElapsedOf(rows[id]) > LimitOf(rows[id]))

\* C8: in filter mode the decision's matched_keywords are exactly the
\* configured keywords that occur in the command regardless of case, and the
\* command is queued exactly when there is one.
C8_CaseInsensitiveMatch ==
    \A k \in DOMAIN decision :
        LET d == decision[k]
            expected == {w \in Range(d.config.filter_keywords) :
                            Contains(Lower(d.command), Lower(w))}
        IN  d.config.execution_mode = "filter" =>
                /\ d.result.matched_keywords = expected
                /\ d.result.mode =
                        (IF expected = {} THEN "execute_now" ELSE "require_approval")

\* C9: a row is created with the global timeout_seconds then in force, no step
\* changes a row's timeout_seconds, and the sweep times a pending row out
\* exactly when its elapsed time exceeds the row's own value, whatever the
\* global setting has become.
C9_TimeoutSnapshot ==
    [][/\ \A id \in DOMAIN rows :
            rows'[id].timeout_seconds = rows[id].timeout_seconds
       /\ Len(rows') > Len(rows) =>
            rows'[Len(rows')].timeout_seconds = settings.timeout_seconds
       /\ ReadBegins =>
            \A id \in DOMAIN rows :
                rows[id].status = "pending" =>
                    (rows'[id].status = "timeout"
                        <=> now - rows[id].created_at > rows[id].timeout_seconds)]_vars

C9_Witness ==
    \E id \in DOMAIN rows :
        /\ rows[id].status = "timeout"
        /\ settings.timeout_seconds > rows[id].timeout_seconds
        /\ rows[id].resolved_at - rows[id].created_at <= settings.timeout_seconds

EventsOf(id, type, scope) ==
    {k \in DOMAIN events[id] : events[id][k] = Event(type, id, scope)}

InFlight(kind, id) ==
    {t \in TaskIds : tasks[t].kind = kind /\ tasks[t].command_id = id
                        /\ tasks[t].pc = "broadcast"}

ResolutionEventOrder(kind, type, id) ==
    LET scoped == Cardinality(EventsOf(id, type, rows[id].assessment_id))
        global == Cardinality(EventsOf(id, type, Global))
        half == {t \in InFlight(kind, id) : Len(tasks[t].outbox) = 1}
    IN  /\ scoped = global + Cardinality(half)
        /\ scoped > 0 => rows[id].status # "pending"
        /\ (response.kind = kind /\ response.outcome = "ok" /\ response.command_id = id)
                => (scoped > 0 /\ global > 0)

QueuedTimeouts(id) ==
    {tk \in TaskIds \X (1..MaxSweepRows + 1) :
        /\ tk[2] \in DOMAIN tasks[tk[1]].outbox
        /\ tasks[tk[1]].outbox[tk[2]] = Event("command_timeout", id, Global)}

\* C11: each row the sweep has set to timeout has exactly one command_timeout
\* event, made globally or still to be made by the read that swept it (so made
\* once that read is over); it is made only after the row is stored as
\* timeout; a row the sweep has not set to timeout has none.
C11_OneTimeoutEventPerSweptRow ==
    \A id \in DOMAIN rows :
        LET made == {k \in DOMAIN events[id] : events[id][k].type = "command_timeout"}
        IN  /\ Cardinality(made) + Cardinality(QueuedTimeouts(id))
                    = (IF rows[id].status = "timeout" THEN 1 ELSE 0)
            /\ made = EventsOf(id, "command_timeout", Global)
            /\ (\A t \in TaskIds : tasks[t].pc # "broadcast")
                    => Cardinality(made) = (IF rows[id].status = "timeout" THEN 1 ELSE 0)

C11_Witness ==
    /\ Len(rows) = 2
    /\ rows[1].status = "timeout"
    /\ rows[2].status = "timeout"
    /\ Cardinality(EventsOf(1, "command_timeout", Global)) = 1
    /\ Cardinality(QueuedTimeouts(2)) = 1
    /\ \E t \in TaskIds : tasks[t].kind \in ReadKinds /\ tasks[t].pc = "query"
    /\ \E t \in TaskIds : tasks[t].kind \in ReadKinds /\ tasks[t].pc = "broadcast"

ResolutionTypes == {"command_approved", "command_rejected", "command_timeout"}

\* C12: on every connection, an event that tells a row's resolution
\* (command_approved, command_rejected, command_timeout) comes after the
\* row's command_pending_approval.
C12_PendingApprovalFirst ==
    \A c \in Connections : \A k \in DOMAIN delivered[c] :
        delivered[c][k].type \in ResolutionTypes
            => \E j \in 1..(k - 1) :
                    /\ delivered[c][j].type = "command_pending_approval"
                    /\ delivered[c][j].command_id = delivered[c][k].command_id

\* a step in which a discover_containers(force_refresh=False) call is taken:
\* it returned at once, or it is now listing
DiscoverBeginsUnforced ==
    \/ calls' = calls /\ ret'.op = "discover"
    \/ \E k \in CallIds :
        /\ calls[k].pc = "idle"
        /\ calls'[k].pc = "listing"
        /\ ~calls'[k].force_refresh

\* C13: a discover(force_refresh=false) call taken less than cache_ttl after
\* the call that filled the cache returns the list that call returned, empty
\* or not, and does not invoke the container runtime.
C13_CachedWithinTTL ==
    [][(/\ DiscoverBeginsUnforced
        /\ cache_timestamp # 0
        /\ now - cache_timestamp < cache_ttl)
            => /\ runtime_calls' = runtime_calls
               /\ ret'.op = "discover"
               /\ ret'.value = containers_cache]_vars

\* a line that describes an Exegol container
WellFormed(line) ==
    /\ line.kind = "json"
    /\ line.Image # Null
    /\ IsExegol(line.Image)
    /\ line.Names # Null
    /\ line.ID # Null

RECURSIVE DescriptorsOf(_)
DescriptorsOf(lines) ==
    IF lines = <<>> THEN <<>>
    ELSE (IF WellFormed(Head(lines))
          THEN <<[name |-> Head(lines).Names, image |-> Head(lines).Image,
                  id |-> Head(lines).ID]>>
          ELSE <<>>) \o DescriptorsOf(Tail(lines))

\* C14: a discover that ran the list command returns the empty list when the
\* command failed, and otherwise the descriptors of the well-formed Exegol
\* lines of its output, in order: a line that cannot be parsed is left out and
\* takes no other line with it.
C14_DiscoveryAbsorbsFailures ==
    (ret.op = "discover" /\ ret.source = "runtime")
        => IF ret.result.success
           THEN ret.value = DescriptorsOf(ret.result.stdout)
           ELSE ret.value = <<>>

\* C15: a _run_command whose process did not complete within the timeout
\* returns success False, returncode -1, error_type "timeout", and whenever
\* _run_command returns, the process it spawned has terminated and been
\* waited for
C15_TimeoutKillsAndReaps ==
    ret.op = "run" =>
        /\ procs[ret.call].state \in {"none", "reaped"}
        /\ ret.timed_out =>
            /\ procs[ret.call].state = "reaped"
            /\ ret.value.success = FALSE
            /\ ret.value.returncode = -1
            /\ ret.value.error_type = "timeout"

\* a timed-out run returns after the process it killed was waited for, while
\* the other slot's process is still running
C15_Witness ==
    /\ ret.op = "run"
    /\ ret.timed_out
    /\ procs[ret.call].killed
    /\ procs[ret.call].state = "reaped"
    /\ \E k \in CallIds : procs[k].state = "running"

\* the kind an error_type string stands for
ErrorKind(error_type) ==
    CASE error_type = "command_not_found" -> "not_found"
      [] error_type \in {"invalid_arguments", "invalid_command"} -> "invalid_arguments"
      [] error_type = "success" -> "none"
      [] OTHER -> error_type

\* the kind the stated priority order gives
KindByPriority(returncode, stderr) ==
    IF returncode = 127 THEN "not_found"
    ELSE IF returncode = 126 THEN "permission_denied"
    ELSE IF \/ returncode = 2
            \/ Contains(Lower(stderr), <<"usage:">>)
            \/ Contains(Lower(stderr), <<"invalid">>) THEN "invalid_arguments"
    ELSE IF Contains(Lower(stderr), <<"not found">>) THEN "not_found"
    ELSE IF Contains(Lower(stderr), <<"permission denied">>) THEN "permission_denied"
    ELSE IF returncode # 0 THEN "command_failed"
    ELSE "none"

\* C16: a run that completed is classified from its return code and stderr by
\* the priority order 127, 126, (2 or "usage:" or "invalid"), "not found",
\* "permission denied", other non-zero code, none
C16_ClassifiedByPriority ==
    (ret.op = "run" /\ ret.value.error_type \notin {"timeout", "execution_failed"}
                    /\ ret.value.returncode # -1)
        => ErrorKind(ret.value.error_type)
               = KindByPriority(ret.returncode, ret.stderr)

\* C20: validate_container_status returns success without a docker start when
\* the container is running; issues one docker start exactly when the inspected
\* status is created or exited, and returns that start's success; returns
\* failure without a docker start when the container is not found or in
\* another state; it always returns a dict
C20_ValidateAndStart ==
    ret.op = "validate" =>
        /\ ret.value.success \in BOOLEAN
        /\ ret.starts = (IF ret.inspected /\ ret.status \in {<<"created">>, <<"exited">>}
                         THEN 1 ELSE 0)
        /\ (ret.inspected /\ ret.status = <<"running">>) => ret.value.success
        /\ ret.starts = 1 => ret.value.success = ret.start_result.success
        /\ (~ret.inspected \/ ret.status \notin
                {<<"running">>, <<"created">>, <<"exited">>}) => ~ret.value.success

\* an exited container whose docker start failed, after two docker start
\* commands in all
C20_Witness ==
    /\ ret.op = "validate"
    /\ ret.status = <<"exited">>
    /\ ret.starts = 1
    /\ ~ret.value.success
    /\ runtime_calls["start"] = 2

\* the calls the entries of a history stand for
InvocationsOf(history) == [i \in DOMAIN history |-> history[i].invocation]

\* the last n elements of a sequence
Suffix(seq, n) == SubSeq(seq, Len(seq) - n + 1, Len(seq))

\* the entries of a call in the history
EntriesOf(invocation) ==
    {i \in DOMAIN command_history : command_history[i].invocation = invocation}

\* C17: the history never holds more than 50 entries, every call of
\* execute_container_command appends exactly one entry, and the entries held
\* are a contiguous block of calls in the order the calls were made
C17_HistoryInInvocationOrder ==
    /\ Len(command_history) <= max_history
    /\ ret.op = "execute" => Cardinality(EntriesOf(ret.invocation)) = 1
    /\ \A i \in 1..(Len(command_history) - 1) :
            command_history[i + 1].invocation = command_history[i].invocation + 1

\* C17, amended: the history never holds more than 50 entries, every call
\* whose container validation succeeds appends exactly one entry when its
\* command returns (a call whose validation fails appends none), and the
\* entries held are the most recent contiguous block of the calls whose
\* command returned, in the order the commands returned
C17_HistoryInCompletionOrder ==
    /\ Len(command_history) <= max_history
    /\ ret.op = "execute" =>
            Cardinality(EntriesOf(ret.invocation)) = (IF ret.validated THEN 1 ELSE 0)
    /\ Len(command_history) <= Len(completions)
    /\ InvocationsOf(command_history) = Suffix(completions, Len(command_history))

\* a full history was trimmed, and it holds the entry of a call that returned
\* after a later call
C17_Witness ==
    /\ Len(completions) > max_history
    /\ Len(command_history) = KeptEntries + 1
    /\ Overtaken(command_history) = 1
    /\ ret.op = "execute"

\* the placeholders found in a command that no credential of the assessment has
Unresolved(command, assessment_id) ==
    {FindPlaceholders(command)[i] : i \in DOMAIN FindPlaceholders(command)}
        \ {StripBraces(credentials[i].placeholder) :
                i \in {j \in DOMAIN credentials :
                            credentials[j].assessment_id = assessment_id}}

\* a request for an assessment that exists has returned
Substituted(r) ==
    /\ r.kind = "execute_with_credentials"
    /\ r.assessment_id \in AssessmentIds

\* C18: when a token found in the command has no credential of the assessment,
\* the request fails naming an unresolved placeholder and no command is handed
\* to execution and logging
C18_UnresolvedFailsWhole ==
    [][(Substituted(response') /\ Unresolved(response'.command,
                                            response'.assessment_id) # {})
        => /\ response'.outcome = "placeholder_not_found"
           /\ response'.placeholder
                \in Unresolved(response'.command, response'.assessment_id)
           /\ command_log' = command_log]_vars

\* the fields a credential's type takes its value from are present
FieldsPresent(cred) ==
    CASE cred.credential_type \in {"bearer_token", "api_key"} -> cred.token # NoneStr
      [] cred.credential_type = "cookie" -> cred.cookie_value # NoneStr
      [] cred.credential_type \in {"basic_auth", "ssh"} ->
            cred.username # NoneStr /\ cred.password # NoneStr
      [] OTHER -> TRUE

\* the value each type determines (an empty custom_data counts as absent)
ValueByType(cred) ==
    CASE cred.credential_type \in {"bearer_token", "api_key"} -> cred.token
      [] cred.credential_type = "cookie" -> cred.cookie_value
      [] cred.credential_type = "basic_auth" ->
            B64(cred.username \o <<":">> \o cred.password)
      [] cred.credential_type = "ssh" -> cred.username \o <<":">> \o cred.password
      [] cred.credential_type = "custom" ->
            IF cred.token # NoneStr THEN cred.token
            ELSE IF cred.custom_data \notin {NoData, EmptyData}
                THEN <<cred.custom_data>>
            ELSE <<>>

\* the command with every occurrence of every token replaced by its value
RECURSIVE WithValues(_, _)
WithValues(command, creds) ==
    IF command = <<>> THEN <<>>
    ELSE (IF PlaceholderIn(Head(command)) = Null THEN <<Head(command)>>
          ELSE ValueByType(CredsMap(creds, PlaceholderIn(Head(command)))[1]))
            \o WithValues(Tail(command), creds)

\* the credentials the tokens of a command stand for
UsedCredentials(command, assessment_id) ==
    {CredsMap(CredentialsOf(assessment_id), FindPlaceholders(command)[i])[1] :
        i \in DOMAIN FindPlaceholders(command)}

\* C19: when every token found in the command has a credential of the
\* assessment, the request succeeds, whichever optional fields are absent, and
\* the command run has every occurrence of every token replaced by the value
\* its credential's type determines
C19_ValueByCredentialType ==
    (Substituted(response) /\ Unresolved(response.command, response.assessment_id) = {})
        => /\ response.outcome = "ok"
           /\ (\A cred \in UsedCredentials(response.command, response.assessment_id) :
                    FieldsPresent(cred))
                => response.executed
                     = WithValues(response.command,
                                  CredentialsOf(response.assessment_id))

\* C29: every result of _run_command has success true exactly when its
\* error_type is the success kind
C29_SuccessIffNoErrorKind ==
    ret.op = "run" => (ret.value.success <=> ret.value.error_type = "success")

\* C26: each row's fields agree with its status: a pending row has no
\* resolved_at, resolved_by, rejection_reason or execution_result; an executed
\* row has an execution_result and no rejection_reason; a rejected or timeout
\* row has no execution_result; a timeout row has no resolved_by
C26_FieldsAgreeWithStatus ==
    \A id \in DOMAIN rows :
        LET cmd == rows[id]
        IN  /\ cmd.status = "pending" =>
                /\ cmd.resolved_at = NoInt
                /\ cmd.resolved_by = Null
                /\ cmd.rejection_reason = Null
                /\ cmd.execution_result = Null
            /\ cmd.status = "executed" =>
                /\ cmd.execution_result # Null
                /\ cmd.rejection_reason = Null
            /\ cmd.status \in {"rejected", "timeout"} => cmd.execution_result = Null
            /\ cmd.status = "timeout" => cmd.resolved_by = Null

\* C27: an approve runs the command only while the row's elapsed time since
\* created_at does not exceed its timeout limit, swept or not
C27_NoRunPastDeadline ==
    [][\A id \in DOMAIN rows :
            runs'[id] > runs[id] => ~(ElapsedOf(rows[id]) > LimitOf(rows[id]))]_vars

\* C27, amended: an approve runs the command only on a row whose status is
\* pending when the approve checks it; a row that a read has swept to timeout
\* is not run, a row past its limit that no read has swept yet is
C27_RunOnlyWhilePending ==
    [][\A id \in DOMAIN rows :
            /\ runs'[id] > runs[id] => rows[id].status = "pending"
            /\ (rows[id].status = "timeout" /\ ResolutionBeginsOn(id))
                    => runs'[id] = runs[id]]_vars

\* an approve is running the command of a row that is past its limit and
\* still pending
C27_Witness ==
    \E id \in DOMAIN rows, t \in TaskIds :
        /\ tasks[t].kind = "approve"
        /\ tasks[t].pc = "executing"
        /\ tasks[t].command_id = id
        /\ runs[id] = 1
        /\ rows[id].status = "pending"
        /\ ElapsedOf(rows[id]) > LimitOf(rows[id])

\* C28: execute_container_command(container_name, command) runs docker exec
\* only when the validation that precedes it succeeded and was that of the
\* container named container_name; when the validation fails the call returns
\* a failure, no docker exec is spawned and command_history is unchanged.
C28_ExecOnlyInValidatedContainer ==
    [][\A k \in CallIds :
            (calls[k].op = "execute" /\ calls[k].pc = "validating"
                    /\ calls'[k].pc # "validating")
                => IF calls'[k].pc = "executing"
                   THEN /\ runtime_calls'["exec"] = runtime_calls["exec"] + 1
                        /\ calls[k].current_container = calls[k].container_name
                   ELSE /\ ret'.op = "execute" /\ ~ret'.value.success
                        /\ runtime_calls' = runtime_calls
                        /\ command_history' = command_history]_vars

\* a discover_containers call returns in this step, from the cache or from
\* the runtime
DiscoverReturns == ret'.op = "discover"

\* C25: a refresh replaces the cached list and its timestamp together and
\* as a whole: the cache changes only when a discover call that listed the
\* runtime returns, the new cache is the whole list that call built, every
\* discover call returns the whole cache as it was before the step or as it
\* is after it, and the new timestamp is the time that call started, which
\* is not later than the listing it made.
C25_CacheReplacedWholesale ==
    [][/\ DiscoverReturns
            => \/ ret'.value = containers_cache /\ ret'.source = "cache"
               \/ /\ ret'.value = containers_cache'
                  /\ ret'.value = Discovered(ret'.result)
       /\ (containers_cache' # containers_cache \/ cache_timestamp' # cache_timestamp)
            => \E k \in CallIds :
                    /\ calls[k].pc = "listing" /\ calls'[k].pc = "idle"
                    /\ DiscoverReturns /\ ret'.source = "runtime"
                    /\ containers_cache' = ret'.value
                    /\ cache_timestamp' <= calls[k].current_time]_vars

\* a refresh has returned a list of two containers, later than it started,
\* while another refresh is still listing
C25_Witness ==
    /\ ret.op = "discover" /\ ret.source = "runtime"
    /\ Len(ret.value) = 2
    /\ containers_cache = ret.value
    /\ cache_timestamp < now
    /\ \E k \in CallIds : calls[k].pc = "listing"

\* the longest wait the design allows for a docker subcommand: 10 s for the
\* list and for inspect and start, the default of 30 s for the execution
LongestWait(command) == IF command = "exec" THEN 30 ELSE 10

\* C24: every wait for the container runtime is under a timeout, of at most
\* 10 s for docker ps, docker inspect and docker start and of at most 30 s
\* for docker exec; a call returns only after its process was waited for.
C24_WaitsBoundedByKind ==
    /\ \A k \in CallIds :
            (calls[k].op = "run" /\ calls[k].pc \in {"waiting", "killing"})
                => /\ calls[k].timeout > 0
                   /\ calls[k].timeout <= LongestWait(calls[k].command)
    /\ ret.op = "run" => procs[ret.call].state \in {"none", "reaped"}

\* C21: the stored execution_mode is always one of open, filter and closed,
\* and an update of the settings that is refused for its mode leaves the
\* mode, the keywords and the timeout as they were and broadcasts no
\* command_settings_updated event.
C21_ModeAlwaysValid ==
    [][/\ settings'.execution_mode \in ExecutionModes
       /\ (response'.kind = "update_settings" /\ response'.outcome = "bad_request")
            => /\ settings' = settings
               /\ settings_events' = settings_events]_vars

\* no entry occurs twice
NoDuplicate(keywords) ==
    \A i, j \in DOMAIN keywords : keywords[i] = keywords[j] => i = j

\* C22: filter_keywords is an ordered set: in every state reached by
\* update_settings, add_keyword and remove_keyword the list has no duplicate
\* entry, adding a keyword twice gives what adding it once gives, and the
\* list left by remove_keyword(w) does not hold the trimmed, lower-cased w.
C22_KeywordsAreAnOrderedSet ==
    LET keywords == settings.filter_keywords
    IN  /\ NoDuplicate(keywords)
        /\ \A w \in KeywordInputs :
                /\ KeywordsAfterAdd(KeywordsAfterAdd(keywords, w), w)
                        = KeywordsAfterAdd(keywords, w)
                /\ Lower(Strip(w)) \notin Range(KeywordsAfterRemove(keywords, w))

\* a get_output_max_length call returns in this step
GetterReturns ==
    /\ ret'.op = "get_output_max_length"
    /\ UNCHANGED <<platform_output_max_length, response, now>>

\* C23: a write of output_max_length invalidates the value the getter has
\* cached: a get_output_max_length call that returns without asking the
\* backend returns the value stored at the time, and a call that asked the
\* backend and was answered returns the value the backend answered.
C23_GetterReturnsWritten ==
    [][GetterReturns
            => IF calls' = calls
               THEN ret'.source = "cache" /\ ret'.value = StoredOutputMaxLength
               ELSE \E k \in CallIds :
                        /\ calls[k].op = "get_output_max_length"
                        /\ calls'[k].pc = "idle"
                        /\ ret'.source = "backend" => ret'.value = calls[k].fetched]_vars

\* C30: a broadcast that no client's connect or disconnect interfered with
\* returns without raising and has called send_text on every connection
\* that was a target when it began and is still connected when it ends; when
\* a broadcast has returned, no connection whose send failed is left in
\* active_connections or in the set of an assessment; and the set of every
\* assessment is at all times a subset of active_connections.
C30_BroadcastIsolatesFailures ==
    /\ \A a \in AssessmentIds :
            manager.assessment_connections[a] \subseteq Range(manager.active_connections)
    /\ \A r \in Range(broadcast_ret) :
            /\ ~r.interfered
                    => /\ ~r.raised
                       /\ (r.targets \cap Range(manager.active_connections))
                                \subseteq r.visited
            /\ ~r.raised
                    => /\ r.failed \cap Range(manager.active_connections) = {}
                       /\ \A a \in AssessmentIds :
                                r.failed \cap manager.assessment_connections[a] = {}

====
